---- MODULE Spec2Model ----
(***************************************************************************)
(* A model of yapf's line-layout engine (yapf/yapflib/reformatter.py):     *)
(* Reformat, the shortest-path search _AnalyzeSolutionSpace, the verbatim  *)
(* emitters, the trailing-comment alignment pass and _FormatFinalLines;     *)
(* and of what runs before it: the making of the style from a config       *)
(* string (yapf/yapflib/style.py) and the naming recommendations of        *)
(* yapf/yapflib/warnings_utils.py.                                         *)
(*                                                                         *)
(* FormatDecisionState and FormatToken live in modules that are not part   *)
(* of the sources at hand; their operations are modelled from the design   *)
(* document (sections 3 and 4.1) and are marked "design document" below.   *)
(***************************************************************************)
EXTENDS Integers, Sequences, FiniteSets, TLC

VARIABLES
  style_config,    \* CreateStyleFromConfig's argument: the items of a
                   \* config string, or None when the style was set directly
  style,           \* style._style, the global style dict
  global_style_factory,  \* style._GLOBAL_STYLE_FACTORY, by the name of
                   \* the style it creates
  messages,        \* check_all_recommendations: the VAR_NAMING_STYLE
                   \* warnings added to its Messages, in the order added
  checked,         \* check_all_recommendations: the number of lines checked
  uwlines,         \* Reformat's argument: the list of logical lines
  lines,           \* Reformat's argument: the editable line numbers ({}: None)
  verify,          \* Reformat's argument
  runs,            \* how many times the caller runs Reformat: 1, or 2 when
                   \* it formats the text of the first run again
  run,             \* the number of the current run
  first_result,    \* what the first run returned, once there is a second
  first_lines,     \* the final lines of the first run, once there is a second
  reweigh,         \* what the caller changes for the second run: nothing
                   \* (by = 0; it then formats the text of the first run), or
                   \* one split-penalty weight of the style, raised by `by`
                   \* (it then formats the same logical lines again)
  index,           \* _SingleOrMergedLines: the number of lines consumed
  last_was_merged, \* _SingleOrMergedLines: the previous step merged
  final_lines,     \* Reformat: the lines processed so far
  uwline,          \* Reformat: the line being laid out by the search
  initial_state,   \* Reformat's `state`, the FormatDecisionState of uwline
  p_queue,         \* _AnalyzeSolutionSpace: the heap, kept in pop order
  seen,            \* _AnalyzeSolutionSpace: the set of expanded states
  expanded,        \* _AnalyzeSolutionSpace: the items taken off the heap
                   \* whose successors were generated, in the order taken,
                   \* each with the value of count when it was taken
  count,           \* _AnalyzeSolutionSpace: the insertion counter
  ret,             \* _AnalyzeSolutionSpace: the value returned, "none" before
  path,            \* _ReconstructPath: the newline flags it committed
  pc,              \* the position in Reformat and in the search
  result           \* what Reformat returned or raised: [status, text]

vars == <<style_config, messages, checked, style, global_style_factory,
          uwlines, lines, verify,
          runs, run, first_result, first_lines, reweigh, index, last_was_merged, final_lines, uwline, initial_state,
          p_queue, seen, expanded, count, ret, path, pc, result>>

\* The arguments and the caller's variables.
call_vars == <<style_config, messages, checked, style, global_style_factory,
               uwlines, lines, verify,
               runs, run, first_result, first_lines, reweigh>>

\* The variables of Reformat and of the generator it iterates.
reformat_vars == <<index, last_was_merged, final_lines, result>>

\* The variables of _AnalyzeSolutionSpace.
search_vars == <<p_queue, seen, expanded, count, ret, path>>

----------------------------------------------------------------------------
(* Generic helpers *)

\* Python's None; no option value is spelled this way.
None == "None"

Max(a, b) == IF a >= b THEN a ELSE b

RECURSIVE Rep(_, _)
\* Python's  c * n  on a one-character string (the empty string for n <= 0).
Rep(c, n) == IF n <= 0 THEN <<>> ELSE <<c>> \o Rep(c, n - 1)

----------------------------------------------------------------------------
(* The style settings the layout engine reads *)

\* style.CreatePEP8Style: the values the engine reads.  SPACES_BEFORE_COMMENT
\* is an int or a list of ints (_IntOrIntListConverter); it is kept as a
\* sequence, of length 1 for an int.  I18N_COMMENT, a regular expression, is
\* kept as whether it is set, a comment that matches it having the tag
\* "i18n"; I18N_FUNCTION_CALL is the set of the configured names.
PEP8Style ==
  [ COLUMN_LIMIT                            |-> 79,
    CONTINUATION_INDENT_WIDTH               |-> 4,
    INDENT_WIDTH                            |-> 4,
    SPLIT_PENALTY_EXCESS_CHARACTER          |-> 7000,
    SPLIT_PENALTY_FOR_ADDED_LINE_SPLIT      |-> 30,
    SPACES_BEFORE_COMMENT                   |-> <<2>>,
    I18N_COMMENT                            |-> FALSE,
    I18N_FUNCTION_CALL                      |-> {},
    BLANK_LINE_BEFORE_CLASS_DOCSTRING       |-> FALSE,
    BLANK_LINE_BEFORE_MODULE_DOCSTRING      |-> FALSE,
    BLANK_LINE_BEFORE_NESTED_CLASS_OR_DEF   |-> FALSE,
    BLANK_LINES_AROUND_TOP_LEVEL_DEFINITION |-> 2 ]

----------------------------------------------------------------------------
(* FormatToken and UnwrappedLine (design document, section 3)               *)
(*                                                                         *)
(* A token is a record                                                     *)
(*   value    the literal text, a sequence of one-character strings        *)
(*   kind     "name", "open", "close", "comment", "cont", "string", ...    *)
(*   lineno, column      the position in the original source               *)
(*   must_split, can_split, split_penalty   the split hints                *)
(*   spaces_required_before                                                *)
(*   newlines, spaces    the whitespace prefix recorded by the engine:     *)
(*                       newlines * "\n" followed by spaces * " "          *)
(*   retained            the horizontal spacing is the original one        *)
(* A logical line is [tokens, depth, disable].                             *)
(***************************************************************************)

NumTokens(line) == Len(line.tokens)
TokLen(tok) == Len(tok.value)

OpensScope(tok) == tok.kind = "open"
ClosesScope(tok) == tok.kind = "close"

\* The classification flags of a token.
IsComment(tok) == tok.kind \in {"comment", "pylint", "pytype"}
IsPylintComment(tok) == tok.kind = "pylint"
IsPytypeComment(tok) == tok.kind = "pytype"
IsContinuation(tok) == tok.kind = "cont"
IsString(tok) == tok.kind \in {"string", "docstring"}
IsDocstring(tok) == tok.kind = "docstring"
IsPseudoParen(tok) == tok.kind = "pseudo"

\* str.count('\n')
CountNL(value) == Cardinality({i \in 1..Len(value) : value[i] = "\n"})

IsMultilineString(tok) == IsString(tok) /\ CountNL(tok.value) > 0

\* str.rstrip(): drop the trailing blanks and newlines.
RStrip(value) ==
  LET keep == {i \in 1..Len(value) : value[i] \notin {" ", "\n"}}
      last == IF keep = {} THEN 0
              ELSE CHOOSE i \in keep : \A j \in keep : j <= i
  IN SubSeq(value, 1, last)

\* str.startswith
StartsWith(value, prefix) ==
  /\ Len(value) >= Len(prefix)
  /\ SubSeq(value, 1, Len(prefix)) = prefix

\* FormatToken.AddWhitespacePrefix(newlines_before, indent_level=...)
AddWhitespacePrefix(tok, newlines_before, indent_level) ==
  [tok EXCEPT !.newlines = newlines_before,
              !.spaces = indent_level * style.INDENT_WIDTH]

\* FormatToken.AdjustNewlinesBefore(newlines_before)
AdjustNewlinesBefore(tok, newlines_before) ==
  [tok EXCEPT !.newlines = Max(newlines_before, 0)]

\* FormatToken.whitespace_prefix / formatted_whitespace_prefix
WhitespacePrefix(tok) == Rep("\n", tok.newlines) \o Rep(" ", tok.spaces)

\* FormatToken.RetainHorizontalSpacing(first_column, depth): the spaces
\* required before token i become the original gap to the previous token,
\* or the original indentation relative to the line's first token when the
\* token starts a physical line of its own; an int in either case, also
\* where the style gives a list of columns.
TokenRetainHorizontalSpacing(line, i, first_column, depth) ==
  LET tok == line.tokens[i]
  IN IF i = 1 THEN tok
     ELSE
       LET previous    == line.tokens[i - 1]
           prev_lineno == previous.lineno
                          + (IF IsMultilineString(previous)
                               THEN CountNL(previous.value) ELSE 0)
       IN IF tok.lineno # prev_lineno
            THEN [tok EXCEPT !.spaces_required_before =
                               tok.column - first_column
                               + depth * style.INDENT_WIDTH,
                             !.columns = <<>>,
                             !.retained = TRUE]
            ELSE [tok EXCEPT !.spaces_required_before =
                               tok.column
                               - (previous.column + TokLen(previous)),
                             !.columns = <<>>,
                             !.retained = TRUE]

----------------------------------------------------------------------------
(* FormatDecisionState (design document, sections 3 and 4.1)                *)
(*                                                                         *)
(* A decision state is [next, column, stack, newline,                      *)
(* ignore_stack_for_comparison]: the cursor (index of the next token,      *)
(* NumTokens + 1 when there is none), the emitted width of the current     *)
(* physical line, the indent/bracket stack (one frame per open bracket,    *)
(* with the continuation indent and the number of splits made inside it),  *)
(* whether the last edge inserted a newline, and the flag that             *)
(* reformatter.py sets to relax the comparison.                            *)
(***************************************************************************)

Top(stack) == stack[Len(stack)]

HasNextToken(line, st) == st.next <= NumTokens(line)

\* MoveToNextToken: account for the token under the cursor, starting at the
\* column the state holds, and advance the cursor.
MoveStateToNextToken(line, st) ==
  LET tok == line.tokens[st.next]
      col == st.column + TokLen(tok)
      stk == IF OpensScope(tok)
               THEN Append(st.stack, [indent |-> col, num_line_splits |-> 0])
             ELSE IF ClosesScope(tok) /\ Len(st.stack) > 1
               THEN SubSeq(st.stack, 1, Len(st.stack) - 1)
             ELSE st.stack
  IN [st EXCEPT !.next = @ + 1, !.column = col, !.stack = stk]

\* FormatDecisionState(uwline, indent_amt): the cursor is at the first token.
FormatDecisionState(line, indent_amt) ==
  [ next   |-> 1,
    column |-> indent_amt,
    stack  |-> << [indent |-> indent_amt + style.CONTINUATION_INDENT_WIDTH,
                   num_line_splits |-> 0] >>,
    newline |-> FALSE,
    ignore_stack_for_comparison |-> FALSE ]

\* MustSplit(): the next token's hint forces a break.
MustSplit(line, st) == line.tokens[st.next].must_split

\* CanSplit(must_split): false when the next token is marked unsplittable.
CanSplit(line, st, must_split) == line.tokens[st.next].can_split

\* Clone(): a fully independent copy (values are immutable here).
Clone(st) == st

\* Equality of decision states: cursor, emitted width and the stack; the
\* stack is left out as soon as either side has ignore_stack_for_comparison.
\* Penalty and parent link are not part of a state.
StateEq(a, b) ==
  /\ a.next = b.next
  /\ a.column = b.column
  /\ \/ a.ignore_stack_for_comparison
     \/ b.ignore_stack_for_comparison
     \/ a.stack = b.stack

\* The column at which a token placed after a newline starts: the original
\* one where the horizontal spacing is retained, else the indent of the
\* innermost open bracket.
NewlineColumn(st, tok) ==
  IF tok.retained THEN tok.spaces_required_before ELSE Top(st.stack).indent

\* The whitespace a non-dry-run AddTokenToState records on the token.
CommitWhitespace(tok, newline, start) ==
  IF newline
    THEN [tok EXCEPT !.newlines = Max(@, 1), !.spaces = start]
    ELSE [tok EXCEPT !.spaces = Max(tok.spaces_required_before, 0)]

\* AddTokenToState(newline, dry_run, must_split): place the next token on the
\* current line or after a newline and indent.  The result is the new state,
\* the penalty delta and the line (changed only when dry_run is false).
AddTokenToState(line, st, newline, dry_run, must_split) ==
  LET tok   == line.tokens[st.next]
      top   == Top(st.stack)
      start == IF newline THEN NewlineColumn(st, tok)
               ELSE st.column + Max(tok.spaces_required_before, 0)
      top1  == IF newline /\ ~must_split
                 THEN [top EXCEPT !.num_line_splits = @ + 1] ELSE top
      split == IF ~newline THEN 0
               ELSE IF must_split THEN tok.split_penalty
               ELSE tok.split_penalty
                    + style.SPLIT_PENALTY_FOR_ADDED_LINE_SPLIT
                      * top1.num_line_splits
      st1   == [st EXCEPT !.column = start, !.newline = newline,
                          !.stack = [st.stack EXCEPT ![Len(st.stack)] = top1]]
      st2   == MoveStateToNextToken(line, st1)
      excess == IF st2.column > style.COLUMN_LIMIT
                  THEN style.SPLIT_PENALTY_EXCESS_CHARACTER
                       * (st2.column - style.COLUMN_LIMIT)
                  ELSE 0
      line1 == IF dry_run THEN line
               ELSE [line EXCEPT !.tokens[st.next] =
                                   CommitWhitespace(tok, newline, start)]
  IN [state |-> st2, penalty |-> split + excess, line |-> line1]

----------------------------------------------------------------------------
(* The search: _StateNode, _QueueItem, _AnalyzeSolutionSpace                *)
(*                                                                         *)
(* A node is [state, newline, previous]; previous, the parent link, is the *)
(* chain of ancestors from the root down to the parent, each given by the  *)
(* newline flag of its edge (<<>> stands for None, the root's parent).     *)
(* A queue item is [penalty, count, state_node].  p_queue holds the heap's *)
(* items in the order heappop returns them: by (penalty, count).           *)
(***************************************************************************)

\* The exploration count beyond which popped states compare without stack.
RelaxThreshold == 10000

\* The number of iterations of the search loop taken in one step.
LoopBatch == 40

\* _StateNode(state, newline, previous); previous is <<>> for None and
\* <<node>> for a parent node.
StateNode(st, newline, previous) ==
  [ state    |-> Clone(st),
    newline  |-> newline,
    previous |-> IF previous = <<>> THEN <<>>
                 ELSE Append(previous[1].previous, previous[1].newline) ]

\* A queue in insertion order, whatever the penalties.
OrderedByCount(a, b) == a.count < b.count

\* A queue in which, of items of equal penalty, the later inserted comes
\* first.
OrderedLaterFirst(a, b) ==
  \/ a.penalty < b.penalty
  \/ a.penalty = b.penalty /\ a.count > b.count

\* _OrderedPenalty: (penalty, count) compared as a tuple.
OrderedBefore(a, b) ==
  \/ a.penalty < b.penalty
  \/ a.penalty = b.penalty /\ a.count < b.count

RECURSIVE OrderedBeforeCount(_, _, _, _)
\* The number of items of q ordered before item, q being in pop order: the
\* items lo..hi are searched by bisection.
OrderedBeforeCount(q, item, lo, hi) ==
  IF lo > hi THEN lo - 1
  ELSE LET mid == (lo + hi) \div 2
       IN IF OrderedBefore(q[mid], item)
            THEN OrderedBeforeCount(q, item, mid + 1, hi)
            ELSE OrderedBeforeCount(q, item, lo, mid - 1)

\* heapq.heappush: the item goes after every item ordered before it.
HeapPush(q, item) ==
  LET k == OrderedBeforeCount(q, item, 1, Len(q))
  IN SubSeq(q, 1, k) \o <<item>> \o SubSeq(q, k + 1, Len(q))

\* `seen` is a hash set: it is kept as the function from a hash, the cursor
\* and the column (which equal states share), to the states with that hash.
HashOf(st) == <<st.next, st.column>>

\* A set in which no state is ever found.
InSeenNever(st, set) == FALSE

\* node.state in seen
InSeen(st, set) ==
  /\ HashOf(st) \in DOMAIN set
  /\ \E t \in set[HashOf(st)] : StateEq(st, t)

\* seen.add(node.state)
SeenAdd(set, st) ==
  IF HashOf(st) \in DOMAIN set
    THEN [set EXCEPT ![HashOf(st)] = @ \cup {st}]
    ELSE [h \in DOMAIN set \cup {HashOf(st)} |->
            IF h = HashOf(st) THEN {st} ELSE set[h]]

\* The states in seen.
SeenStates(set) == UNION {set[h] : h \in DOMAIN set}

\* A 'no newline' successor queued although the token must be split.
AddNextStateToQueueUnguarded(line, penalty, previous_node, newline, cnt, q) ==
  LET must_split == MustSplit(line, previous_node.state)
  IN IF newline /\ ~CanSplit(line, previous_node.state, must_split)
       THEN [count |-> cnt, p_queue |-> q, line |-> line]
     ELSE
       LET node == StateNode(previous_node.state, newline, <<previous_node>>)
           r    == AddTokenToState(line, node.state, newline, TRUE, must_split)
           item == [penalty |-> penalty + r.penalty, count |-> cnt,
                    state_node |-> [node EXCEPT !.state = r.state]]
       IN [count |-> cnt + 1, p_queue |-> HeapPush(q, item),
           line |-> r.line]

\* A successor queued with the penalty of its last edge alone, the penalty
\* of the path up to it being dropped.
AddNextStateToQueueNoSum(line, penalty, previous_node, newline, cnt, q) ==
  LET must_split == MustSplit(line, previous_node.state)
  IN IF newline /\ ~CanSplit(line, previous_node.state, must_split)
       THEN [count |-> cnt, p_queue |-> q, line |-> line]
     ELSE IF ~newline /\ must_split
       THEN [count |-> cnt, p_queue |-> q, line |-> line]
     ELSE
       LET node == StateNode(previous_node.state, newline, <<previous_node>>)
           r    == AddTokenToState(line, node.state, newline, TRUE, must_split)
           item == [penalty |-> r.penalty, count |-> cnt,
                    state_node |-> [node EXCEPT !.state = r.state]]
       IN [count |-> cnt + 1, p_queue |-> HeapPush(q, item),
           line |-> r.line]

\* A 'newline' successor queued although the token cannot be split before.
AddNextStateToQueueUnchecked(line, penalty, previous_node, newline, cnt, q) ==
  LET must_split == MustSplit(line, previous_node.state)
  IN IF ~newline /\ must_split
       THEN [count |-> cnt, p_queue |-> q, line |-> line]
     ELSE
       LET node == StateNode(previous_node.state, newline, <<previous_node>>)
           r    == AddTokenToState(line, node.state, newline, TRUE, must_split)
           item == [penalty |-> penalty + r.penalty, count |-> cnt,
                    state_node |-> [node EXCEPT !.state = r.state]]
       IN [count |-> cnt + 1, p_queue |-> HeapPush(q, item),
           line |-> r.line]

\* A successor placed by an AddTokenToState that is no dry run.
AddNextStateToQueueCommits(line, penalty, previous_node, newline, cnt, q) ==
  LET must_split == MustSplit(line, previous_node.state)
  IN IF newline /\ ~CanSplit(line, previous_node.state, must_split)
       THEN [count |-> cnt, p_queue |-> q, line |-> line]
     ELSE IF ~newline /\ must_split
       THEN [count |-> cnt, p_queue |-> q, line |-> line]
     ELSE
       LET node == StateNode(previous_node.state, newline, <<previous_node>>)
           r    == AddTokenToState(line, node.state, newline, FALSE, must_split)
           item == [penalty |-> penalty + r.penalty, count |-> cnt,
                    state_node |-> [node EXCEPT !.state = r.state]]
       IN [count |-> cnt + 1, p_queue |-> HeapPush(q, item),
           line |-> r.line]

\* _AddNextStateToQueue(penalty, previous_node, newline, count, p_queue):
\* the new [count, p_queue], and the line with the tokens as the call of
\* AddTokenToState leaves them.
AddNextStateToQueue(line, penalty, previous_node, newline, cnt, q) ==
  LET must_split == MustSplit(line, previous_node.state)
  IN IF newline /\ ~CanSplit(line, previous_node.state, must_split)
       THEN [count |-> cnt, p_queue |-> q, line |-> line]
     ELSE IF ~newline /\ must_split
       THEN [count |-> cnt, p_queue |-> q, line |-> line]
     ELSE
       LET node == StateNode(previous_node.state, newline, <<previous_node>>)
           r    == AddTokenToState(line, node.state, newline, TRUE, must_split)
           item == [penalty |-> penalty + r.penalty, count |-> cnt,
                    state_node |-> [node EXCEPT !.state = r.state]]
       IN [count |-> cnt + 1, p_queue |-> HeapPush(q, item),
           line |-> r.line]

RECURSIVE Replay(_, _, _)
\* The loop of _ReconstructPath over the collected path: one non-dry-run
\* AddTokenToState per flag; the result is [state, line].
Replay(line, st, flags) ==
  IF flags = <<>> THEN [state |-> st, line |-> line]
  ELSE LET r == AddTokenToState(line, st, Head(flags), FALSE, FALSE)
       IN Replay(r.line, r.state, Tail(flags))

\* The flags collected with append, not appendleft: from current up to the
\* node below the root.
PathOfAppended(current) ==
  IF current.previous = <<>> THEN <<>>
  ELSE LET p == Tail(Append(current.previous, current.newline))
       IN  [k \in 1..Len(p) |-> p[Len(p) + 1 - k]]

\* Lines 546-550: the newline flags of the nodes from the one below the root
\* to current, in that order.
PathOf(current) ==
  IF current.previous = <<>> THEN <<>>
  ELSE Tail(Append(current.previous, current.newline))

\* _ReconstructPath(initial_state, current): the path replayed onto
\* initial_state.
ReconstructPath(line, st, current) == Replay(line, st, PathOf(current))

----------------------------------------------------------------------------
(* Spacing retention and verbatim emission (reformatter.py, lines 110-199)  *)

First(line) == line.tokens[1]
Last(line) == line.tokens[NumTokens(line)]

\* _RetainHorizontalSpacing(uwline)
RetainHorizontalSpacing(line) ==
  [line EXCEPT !.tokens =
     [i \in 1..NumTokens(line) |->
        TokenRetainHorizontalSpacing(line, i, First(line).column, line.depth)]]

EndsWithBackslash(value) == value # <<>> /\ value[Len(value)] = "\\"

\* _RetainRequiredVerticalSpacingBetweenTokens(cur_tok, prev_tok, lines);
\* prev is <<>> for None and <<prev_tok>> otherwise, prev2 likewise holds
\* prev_tok.previous_token.
RetainRequiredVerticalSpacingBetweenTokens(cur_tok, prev, prev2, lns) ==
  IF prev = <<>> THEN cur_tok
  ELSE
    LET prev_tok == prev[1]
        prev_lineno0 ==
          IF IsString(prev_tok)
            THEN prev_tok.lineno + CountNL(prev_tok.value)
          ELSE IF IsPseudoParen(prev_tok)
            THEN IF ~IsMultilineString(prev2[1])
                   THEN prev2[1].lineno ELSE prev_tok.lineno
          ELSE prev_tok.lineno
        cur_lineno ==
          IF IsComment(cur_tok)
            THEN cur_tok.lineno - CountNL(cur_tok.value)
            ELSE cur_tok.lineno
        prev_lineno ==
          IF EndsWithBackslash(prev_tok.value)
            THEN prev_lineno0 + CountNL(prev_tok.value)
            ELSE prev_lineno0
        required0 == cur_lineno - prev_lineno
        required_newlines ==
          IF IsComment(cur_tok) /\ ~IsComment(prev_tok)
            THEN required0
          ELSE IF lns # {} /\ (cur_lineno \in lns \/ prev_lineno \in lns)
            THEN LET desired0 == cur_tok.newlines
                     desired_newlines ==
                       IF desired0 < required0 THEN required0 ELSE desired0
                     whitespace_lines == (prev_lineno + 1)..(cur_lineno - 1)
                     deletable_lines ==
                       Cardinality(lns \cap whitespace_lines)
                 IN Max(required0 - deletable_lines, desired_newlines)
          ELSE required0
    IN AdjustNewlinesBefore(cur_tok, required_newlines)

\* _RetainRequiredVerticalSpacing(cur_uwline, prev_uwline, lines);
\* prev_uwline is <<>> for None and <<line>> otherwise.
RetainRequiredVerticalSpacing(cur_uwline, prev_uwline, lns) ==
  LET n == NumTokens(cur_uwline)
      PrevOf(i) ==
        IF i > 1 THEN <<cur_uwline.tokens[i - 1]>>
        ELSE IF prev_uwline = <<>> THEN <<>>
        ELSE <<Last(prev_uwline[1])>>
      Prev2Of(i) ==
        IF i > 2 THEN <<cur_uwline.tokens[i - 2]>>
        ELSE IF i = 2 THEN <<>>
        ELSE IF prev_uwline = <<>> \/ NumTokens(prev_uwline[1]) < 2 THEN <<>>
        ELSE <<prev_uwline[1].tokens[NumTokens(prev_uwline[1]) - 1]>>
  IN [cur_uwline EXCEPT !.tokens =
        [i \in 1..n |->
           RetainRequiredVerticalSpacingBetweenTokens(
             cur_uwline.tokens[i], PrevOf(i), Prev2Of(i), lns)]]

NO_BLANK_LINES == 1
ONE_BLANK_LINE == 2
TWO_BLANK_LINES == 3

\* _RetainVerticalSpacingBeforeComments(uwline)
RetainVerticalSpacingBeforeComments(line) ==
  [line EXCEPT !.tokens =
     [i \in 1..NumTokens(line) |->
        LET tok == line.tokens[i]
        IN IF /\ i > 1
              /\ IsComment(tok)
              /\ tok.lineno - CountNL(tok.value)
                   - line.tokens[i - 1].lineno > 1
             THEN AdjustNewlinesBefore(tok, ONE_BLANK_LINE)
             ELSE tok]]

RECURSIVE EmitLineUnformatted(_, _)
\* _EmitLineUnformatted(state): every remaining token is placed where the
\* original line numbers put it; the result is [state, line].
EmitLineUnformatted(line, st) ==
  IF ~HasNextToken(line, st) THEN [state |-> st, line |-> line]
  ELSE
    LET next_token     == line.tokens[st.next]
        previous_token == line.tokens[st.next - 1]
        previous_lineno ==
          previous_token.lineno
          + (IF IsMultilineString(previous_token) \/ IsString(previous_token)
               THEN CountNL(previous_token.value) ELSE 0)
        newline == IF IsContinuation(previous_token) THEN FALSE
                   ELSE next_token.lineno > previous_lineno
        r == AddTokenToState(line, st, newline, FALSE, FALSE)
    IN EmitLineUnformatted(r.line, r.state)

\* _LineContainsI18n(uwline)
LineContainsI18n(line) ==
  \/ /\ style.I18N_COMMENT
     /\ \E i \in 1..NumTokens(line) :
          IsComment(line.tokens[i]) /\ line.tokens[i].tag = "i18n"
  \/ /\ style.I18N_FUNCTION_CALL # {}
     /\ \E i \in 1..(NumTokens(line) - 1) :
          /\ line.tokens[i + 1].value = <<"(">>
          /\ line.tokens[i].value \in style.I18N_FUNCTION_CALL

\* _LineContainsPylintDisableLineTooLong(uwline)
LineContainsPylintDisableLineTooLong(line) ==
  \E i \in 1..NumTokens(line) :
    IsComment(line.tokens[i]) /\ line.tokens[i].tag = "line-too-long"

\* _LineHasContinuationMarkers(uwline)
LineHasContinuationMarkers(line) ==
  \E i \in 1..NumTokens(line) : IsContinuation(line.tokens[i])

\* Every line is taken to fit.
CanPlaceAlways(line) == TRUE

\* _CanPlaceOnSingleLine(uwline)
CanPlaceOnSingleLine(line) ==
  LET indent_amt == style.INDENT_WIDTH * line.depth
      n          == NumTokens(line)
      skip       == IsPylintComment(Last(line)) \/ IsPytypeComment(Last(line))
      last_pos   == IF skip THEN n - 1 ELSE n
      upto       == IF skip THEN n - 2 ELSE n - 1
  IN IF last_pos = 0 THEN TRUE
     ELSE /\ line.tokens[last_pos].total_length + indent_amt
               <= style.COLUMN_LIMIT
          /\ ~ \E i \in 1..upto : IsComment(line.tokens[i])

----------------------------------------------------------------------------
(* The first token of a line (reformatter.py, lines 556-687, 738-762)       *)

V_class == <<"c", "l", "a", "s", "s">>
V_def   == <<"d", "e", "f">>
V_async == <<"a", "s", "y", "n", "c">>
V_at    == <<"@">>
V_if    == <<"i", "f">>
V_elif  == <<"e", "l", "i", "f">>
V_else  == <<"e", "l", "s", "e">>

\* UnwrappedLine.is_comment: the line is a comment on a line of its own.
LineIsComment(line) == IsComment(First(line))

\* _IsClassOrDef(uwline)
IsClassOrDef(line) ==
  \/ First(line).value \in {V_class, V_def}
  \/ /\ NumTokens(line) >= 2
     /\ line.tokens[1].value = V_async
     /\ line.tokens[2].value = V_def

\* _NoBlankLinesBeforeCurrentToken(text, cur_token, prev_token)
NoBlankLinesBeforeCurrentToken(text, cur_token, prev_token) ==
  LET cur_token_lineno ==
        cur_token.lineno
        - (IF IsComment(cur_token) THEN CountNL(cur_token.value) ELSE 0)
      num_newlines == IF ~IsComment(prev_token) THEN CountNL(text) ELSE 0
  IN prev_token.lineno + num_newlines = cur_token_lineno - 1

\* Replace the first / last token of line k of a list of lines.
SetFirst(fl, k, tok) == [fl EXCEPT ![k].tokens[1] = tok]
SetLast(fl, k, tok) == [fl EXCEPT ![k].tokens[NumTokens(fl[k])] = tok]

\* _CalculateNumberOfNewlines(first_token, indent_depth, prev_uwline,
\* final_lines): [n, final_lines]; prev_uwline is the last of final_lines.
\* (The NEWLINES node annotation it clears is read by no code modelled here.)
CalculateNumberOfNewlines(first_token, indent_depth, fl) ==
  IF fl = <<>> THEN [n |-> 0, final_lines |-> fl]
  ELSE
    LET prev_uwline     == fl[Len(fl)]
        prev_last_token == Last(prev_uwline)
        Plain ==
          LET first_token_lineno ==
                first_token.lineno
                - (IF IsComment(first_token)
                     THEN CountNL(first_token.value) ELSE 0)
              prev_last_token_lineno ==
                prev_last_token.lineno
                + (IF IsMultilineString(prev_last_token)
                     THEN CountNL(prev_last_token.value) ELSE 0)
          IN IF first_token_lineno - prev_last_token_lineno > 1
               THEN ONE_BLANK_LINE ELSE NO_BLANK_LINES
    IN IF IsDocstring(first_token)
         THEN [n |-> IF First(prev_uwline).value = V_class
                        /\ style.BLANK_LINE_BEFORE_CLASS_DOCSTRING
                       THEN ONE_BLANK_LINE
                     ELSE IF StartsWith(First(prev_uwline).value, <<"#">>)
                             /\ style.BLANK_LINE_BEFORE_MODULE_DOCSTRING
                       THEN ONE_BLANK_LINE
                     ELSE NO_BLANK_LINES,
               final_lines |-> fl]
       ELSE IF IsDocstring(prev_last_token)
         THEN [n |-> IF indent_depth = 0
                        /\ first_token.value \in {V_class, V_def, V_async}
                       THEN 1 + style.BLANK_LINES_AROUND_TOP_LEVEL_DEFINITION
                     ELSE IF NoBlankLinesBeforeCurrentToken(
                               prev_last_token.value, first_token,
                               prev_last_token)
                       THEN NO_BLANK_LINES
                     ELSE ONE_BLANK_LINE,
               final_lines |-> fl]
       ELSE IF first_token.value \in {V_class, V_def, V_async, V_at}
         THEN
           IF indent_depth = 0
             THEN
               LET is_inline_comment == prev_last_token.newlines = 0
               IN IF /\ ~prev_uwline.disable
                     /\ IsComment(prev_last_token)
                     /\ ~is_inline_comment
                     /\ NoBlankLinesBeforeCurrentToken(
                          prev_last_token.value, first_token, prev_last_token)
                    THEN
                      LET n  == Len(fl)
                          \* the while loop: the first line of the run of
                          \* comment lines that ends just before the last one
                          k  == CHOOSE i \in 1..n :
                                  /\ \A j \in i..(n - 1) : LineIsComment(fl[j])
                                  /\ \A h \in 1..(i - 1) :
                                       \E j \in h..(n - 1) :
                                         ~LineIsComment(fl[j])
                          \* final_lines[index - 1], Python's wrap-around
                          \* for index 0 included
                          before == IF k > 1 THEN k - 1 ELSE n
                      IN [n |-> NO_BLANK_LINES,
                          final_lines |->
                            IF First(fl[before]).value = V_at
                              THEN SetFirst(fl, k,
                                     AdjustNewlinesBefore(First(fl[k]),
                                                          NO_BLANK_LINES))
                              ELSE SetLast(fl, n,
                                     AdjustNewlinesBefore(prev_last_token,
                                       1 + style.BLANK_LINES_AROUND_TOP_LEVEL_DEFINITION))]
                    ELSE [n |-> Plain, final_lines |-> fl]
           ELSE IF IsClassOrDef(prev_uwline)
                   /\ ~style.BLANK_LINE_BEFORE_NESTED_CLASS_OR_DEF
             THEN [n |-> NO_BLANK_LINES, final_lines |-> fl]
           ELSE [n |-> Plain, final_lines |-> fl]
       ELSE [n |-> Plain, final_lines |-> fl]

\* _FormatFirstToken(first_token, indent_depth, prev_uwline, final_lines):
\* [tok, final_lines]
FormatFirstToken(first_token, indent_depth, fl) ==
  LET c == CalculateNumberOfNewlines(first_token, indent_depth, fl)
  IN [tok |-> AddWhitespacePrefix(first_token, c.n, indent_depth),
      final_lines |-> c.final_lines]

----------------------------------------------------------------------------
(* _SingleOrMergedLines (reformatter.py, lines 690-735)                     *)

\* UnwrappedLine.lineno: the line number of the first token.
LineNo(line) == First(line).lineno

\* format_token.FormatToken(pytree.Leaf(type=token.SEMI, value=';',
\* context=('', (lineno, column)))): a token with no hints.
SemiToken(lineno, column) ==
  [ value |-> <<";">>, kind |-> "semi", lineno |-> lineno, column |-> column,
    must_split |-> FALSE, can_split |-> FALSE, split_penalty |-> 0,
    spaces_required_before |-> 0, columns |-> <<>>, total_length |-> 0,
    tag |-> "", newlines |-> 0, spaces |-> 0, retained |-> FALSE ]

\* UnwrappedLine.AppendToken, once per token of toks.
AppendTokens(line, toks) == [line EXCEPT !.tokens = @ \o toks]

RECURSIVE AbsorbDisabledAlwaysSemi(_, _, _)
\* The inner loop with a ';' before every absorbed line.
AbsorbDisabledAlwaysSemi(ul, lns, idx) ==
  IF idx >= Len(lns) \/ LineNo(lns[idx + 1]) # LineNo(ul)
    THEN [uwline |-> ul, index |-> idx]
  ELSE AbsorbDisabledAlwaysSemi(
         AppendTokens(ul, <<SemiToken(LineNo(ul), Last(ul).column + 2)>>
                          \o lns[idx + 2 - 1].tokens),
         lns, idx + 1)

RECURSIVE AbsorbDisabled(_, _, _)
\* Lines 706-716: the inner loop over the lines that start on the physical
\* line of the disabled line ul; the result is [uwline, index].
AbsorbDisabled(ul, lns, idx) ==
  IF idx >= Len(lns) THEN [uwline |-> ul, index |-> idx]
  ELSE
    LET column == Last(ul).column + 2
        nxt    == lns[idx + 1]
    IN IF LineNo(nxt) # LineNo(ul) THEN [uwline |-> ul, index |-> idx]
       ELSE
         LET ul1 == IF Last(ul).value # <<":">>
                      THEN AppendTokens(ul, <<SemiToken(LineNo(ul), column)>>)
                      ELSE ul
         IN AbsorbDisabled(AppendTokens(ul1, nxt.tokens), lns, idx + 1)

\* line_joiner.CanMergeMultipleLines(lines, last_was_merged) (design
\* document, section 4.3): an `if` header (or an `elif` / `else` header
\* right after a merge) and the single short statement that is its body,
\* when the two together stay within the column limit.
CanMergeMultipleLines(lns, was_merged) ==
  /\ Len(lns) >= 2
  /\ style.COLUMN_LIMIT > 0
  /\ \/ First(lns[1]).value = V_if
     \/ was_merged /\ First(lns[1]).value \in {V_elif, V_else}
  /\ Last(lns[1]).value = <<":">>
  /\ lns[2].depth = lns[1].depth + 1
  /\ Len(lns) >= 3 => lns[3].depth <= lns[1].depth
  /\ \A i \in 1..NumTokens(lns[2]) : ~IsComment(lns[2].tokens[i])
  /\ lns[1].depth * style.INDENT_WIDTH
       + Last(lns[1]).total_length + 1 + Last(lns[2]).total_length
       <= style.COLUMN_LIMIT

\* _SingleOrMergedLines with `last_was_merged = False` in the branch of
\* the disabled lines too.
SingleOrMergedLinesResets(lns, idx, was_merged) ==
  IF lns[idx + 1].disable
    THEN
      LET a == AbsorbDisabled(lns[idx + 1], lns, idx + 1)
      IN [uwline |-> a.uwline, index |-> a.index, last_was_merged |-> FALSE]
  ELSE IF CanMergeMultipleLines(SubSeq(lns, idx + 1, Len(lns)), was_merged)
    THEN [uwline |-> AppendTokens(lns[idx + 1], lns[idx + 2].tokens),
          index |-> idx + 2, last_was_merged |-> TRUE]
  ELSE [uwline |-> lns[idx + 1], index |-> idx + 1,
        last_was_merged |-> FALSE]

\* _SingleOrMergedLines yielding the header alone from the merge branch.
SingleOrMergedLinesDropsBody(lns, idx, was_merged) ==
  IF lns[idx + 1].disable
    THEN
      LET a == AbsorbDisabled(lns[idx + 1], lns, idx + 1)
      IN [uwline |-> a.uwline, index |-> a.index,
          last_was_merged |-> was_merged]
  ELSE IF CanMergeMultipleLines(SubSeq(lns, idx + 1, Len(lns)), was_merged)
    THEN [uwline |-> lns[idx + 1], index |-> idx + 2,
          last_was_merged |-> TRUE]
  ELSE [uwline |-> lns[idx + 1], index |-> idx + 1,
        last_was_merged |-> FALSE]

\* One step of the generator _SingleOrMergedLines(uwlines), resumed with
\* idx lines consumed: [uwline, index, last_was_merged].
SingleOrMergedLines(lns, idx, was_merged) ==
  IF lns[idx + 1].disable
    THEN
      LET a == AbsorbDisabled(lns[idx + 1], lns, idx + 1)
      IN [uwline |-> a.uwline, index |-> a.index,
          last_was_merged |-> was_merged]
  ELSE IF CanMergeMultipleLines(SubSeq(lns, idx + 1, Len(lns)), was_merged)
    THEN
      LET next_uwline == lns[idx + 2]
          merged      == AppendTokens(lns[idx + 1], next_uwline.tokens)
      IN [uwline |-> IF NumTokens(next_uwline) = 1
                        /\ IsMultilineString(First(next_uwline))
                       THEN [merged EXCEPT !.disable = TRUE]
                       ELSE merged,
          index |-> idx + 2, last_was_merged |-> TRUE]
  ELSE [uwline |-> lns[idx + 1], index |-> idx + 1,
        last_was_merged |-> FALSE]

----------------------------------------------------------------------------
(* _AlignTrailingComments (reformatter.py, lines 266-391)                   *)
(*                                                                         *)
(* spaces_required_before is an int or, for a comment aligned to columns,  *)
(* a list; the list is kept in the field `columns`, <<>> when the value is *)
(* an int, so that isinstance(spaces_required_before, list) reads          *)
(* columns # <<>>.                                                         *)

IsBlank(c) == c \in {" ", "\n"}

\* str.strip()
Strip(value) ==
  LET keep == {i \in 1..Len(value) : ~IsBlank(value[i])}
  IN IF keep = {} THEN <<>>
     ELSE SubSeq(value, CHOOSE i \in keep : \A j \in keep : i <= j,
                        CHOOSE i \in keep : \A j \in keep : j <= i)

RECURSIVE SplitNL(_)
\* str.split('\n')
SplitNL(value) ==
  LET nl == {i \in 1..Len(value) : value[i] = "\n"}
  IN IF nl = {} THEN <<value>>
     ELSE LET k == CHOOSE i \in nl : \A j \in nl : i <= j
          IN <<SubSeq(value, 1, k - 1)>>
             \o SplitNL(SubSeq(value, k + 1, Len(value)))

\* The comment tokens a block of aligned comments starts at (line 275).
StartsAlignedBlock(tok) ==
  IsComment(tok) /\ tok.columns # <<>> /\ StartsWith(tok.value, <<"#">>)

RECURSIVE ScanLineTokens(_, _, _, _, _)
\* Lines 306-322: the loop over the tokens of one line.  line_content is
\* kept by its length; the result is [pc_line_lengths, max_line_length].
ScanLineTokens(line, i, line_content, pc_line_lengths, max_line_length) ==
  IF i > NumTokens(line)
    THEN [pc_line_lengths |-> pc_line_lengths,
          max_line_length |-> max_line_length]
  ELSE
    LET line_tok == line.tokens[i]
        has_nl   == line_tok.newlines > 0
        mx       == IF has_nl THEN Max(max_line_length, line_content)
                    ELSE max_line_length
        content  == IF has_nl THEN 0 ELSE line_content
        \* the prefix after its last newline is the run of spaces
        prefix   == line_tok.spaces
    IN IF IsComment(line_tok)
         THEN ScanLineTokens(line, i + 1, content,
                             Append(pc_line_lengths, content), mx)
         ELSE ScanLineTokens(line, i + 1,
                             content + prefix + TokLen(line_tok),
                             pc_line_lengths, mx)

MaxOfSeq(q) == CHOOSE m \in {q[i] : i \in 1..Len(q)} :
                 \A i \in 1..Len(q) : q[i] <= m

RECURSIVE ScanBlock(_, _, _, _)
\* Lines 286-327: the `while True` loop that collects the block starting at
\* final_lines_index (0-based); the result is
\* [all_pc_line_lengths, max_line_length].
ScanBlock(fl, final_lines_index, all_pc_line_lengths, max_line_length) ==
  LET done == [all_pc_line_lengths |-> all_pc_line_lengths,
               max_line_length |-> max_line_length]
  IN IF final_lines_index + Len(all_pc_line_lengths) = Len(fl) THEN done
     ELSE
       LET this_line == fl[final_lines_index + Len(all_pc_line_lengths) + 1]
       IN IF all_pc_line_lengths # <<>> /\ First(this_line).newlines >= 2
            THEN done
          ELSE IF this_line.disable
            THEN ScanBlock(fl, final_lines_index,
                           Append(all_pc_line_lengths, <<>>), max_line_length)
          ELSE
            LET r  == ScanLineTokens(this_line, 1, 0, <<>>, max_line_length)
                mx == IF r.pc_line_lengths # <<>>
                        THEN Max(r.max_line_length,
                                 MaxOfSeq(r.pc_line_lengths))
                        ELSE r.max_line_length
            IN ScanBlock(fl, final_lines_index,
                         Append(all_pc_line_lengths, r.pc_line_lengths), mx)

\* The first configured column, whatever the content.
AlignedColFirst(columns, max_line_length) == columns[1]

\* The first column that is at least two beyond the longest content.
AlignedColAtLeast(columns, max_line_length) ==
  LET m    == max_line_length + 2
      fits == {i \in 1..Len(columns) : columns[i] >= m}
  IN IF fits = {} THEN m
     ELSE columns[CHOOSE i \in fits : \A j \in fits : i <= j]

\* Lines 329-339: the aligned column for a block whose longest pre-comment
\* content is max_line_length characters wide.
AlignedCol(columns, max_line_length) ==
  LET m    == max_line_length + 2
      fits == {i \in 1..Len(columns) : columns[i] > m}
  IN IF fits = {} THEN m
     ELSE columns[CHOOSE i \in fits : \A j \in fits : i <= j]

RECURSIVE JoinNL(_)
\* '\n'.join(parts)
JoinNL(parts) ==
  IF Len(parts) = 1 THEN parts[1]
  ELSE parts[1] \o <<"\n">> \o JoinNL(Tail(parts))

\* Lines 357-381: the new value of a comment whose pre-comment content is
\* pc_line_length characters wide.
AlignedCommentValue(line_tok, pc_line_length, aligned_col) ==
  LET parts == SplitNL(line_tok.value)
      line_content ==
        JoinNL([k \in 1..Len(parts) |->
                  Rep(" ", IF k = 1 THEN aligned_col - pc_line_length - 1
                           ELSE aligned_col - 1)
                  \o Strip(parts[k])])
      existing_whitespace_prefix == Rep(" ", line_tok.spaces)
  IN IF StartsWith(line_content, existing_whitespace_prefix)
       THEN SubSeq(line_content, Len(existing_whitespace_prefix) + 1,
                   Len(line_content))
       ELSE line_content

\* Lines 350-381: the comments of one line of the block are rewritten, the
\* k-th comment with the k-th pre-comment length.
AlignLine(line, pc_line_lengths, aligned_col) ==
  IF pc_line_lengths = <<>> THEN line
  ELSE
    [line EXCEPT !.tokens =
       [i \in 1..NumTokens(line) |->
          LET line_tok == line.tokens[i]
              k == Cardinality({j \in 1..i : IsComment(line.tokens[j])})
          IN IF IsComment(line_tok)
               THEN [line_tok EXCEPT !.value =
                       AlignedCommentValue(line_tok, pc_line_lengths[k],
                                           aligned_col)]
               ELSE line_tok]]

RECURSIVE AlignTrailingCommentsFrom(_, _)
\* The outer loop of _AlignTrailingComments from final_lines_index (0-based).
AlignTrailingCommentsFrom(fl, final_lines_index) ==
  IF final_lines_index >= Len(fl) THEN fl
  ELSE
    LET line  == fl[final_lines_index + 1]
        trig  == {i \in 1..NumTokens(line) : StartsAlignedBlock(line.tokens[i])}
    IN IF trig = {}
         THEN AlignTrailingCommentsFrom(fl, final_lines_index + 1)
       ELSE
         LET tok   == line.tokens[CHOOSE i \in trig : \A j \in trig : i <= j]
             b     == ScanBlock(fl, final_lines_index, <<>>, 0)
             n     == Len(b.all_pc_line_lengths)
             aligned_col == AlignedCol(tok.columns, b.max_line_length)
             fl1   == [k \in 1..Len(fl) |->
                         IF k > final_lines_index /\ k <= final_lines_index + n
                           THEN AlignLine(fl[k],
                                  b.all_pc_line_lengths[k - final_lines_index],
                                  aligned_col)
                           ELSE fl[k]]
         IN AlignTrailingCommentsFrom(fl1, final_lines_index + n)

\* _AlignTrailingComments(final_lines)
AlignTrailingComments(fl) == AlignTrailingCommentsFrom(fl, 0)

----------------------------------------------------------------------------
(* _FormatFinalLines (reformatter.py, lines 394-414)                        *)

RECURSIVE Concat(_)
\* ''.join(parts)
Concat(parts) ==
  IF parts = <<>> THEN <<>> ELSE Head(parts) \o Concat(Tail(parts))

\* Lines 399-408: what one token contributes to its line.
TokenText(line, i) ==
  LET tok == line.tokens[i]
  IN IF ~IsPseudoParen(tok) THEN WhitespacePrefix(tok) \o tok.value
     ELSE IF /\ i < NumTokens(line)
             /\ WhitespacePrefix(line.tokens[i + 1]) = <<>>
             /\ \/ i > 1 /\ line.tokens[i - 1].value = <<":">>
                \/ line.tokens[i + 1].value
                     \notin {<<",">>, <<"}">>, <<"]">>, <<")">>}
       THEN <<" ">>
     ELSE <<>>

\* Lines 398-410: ''.join(formatted_line)
LineText(line) == Concat([i \in 1..NumTokens(line) |-> TokenText(line, i)])

\* The text before position i of its physical line holds a '#'.
InComment(text, i) ==
  \E j \in 1..(i - 1) :
    /\ text[j] = "#"
    /\ \A k \in j..i : text[k] # "\n"

\* The nesting depth of the code of text after its first i characters.
BracketDepth(text, i) ==
  Cardinality({j \in 1..i : text[j] = "(" /\ ~InComment(text, j)})
  - Cardinality({j \in 1..i : text[j] = ")" /\ ~InComment(text, j)})

\* verifier.VerifyCode(code) (design document, section 4.5) accepts the
\* code that parses; of Python's grammar the brackets are kept: outside
\* comments, every bracket is closed and none is closed before it opens.
Parses(text) ==
  /\ BracketDepth(text, Len(text)) = 0
  /\ \A i \in 1..Len(text) : BracketDepth(text, i) >= 0

\* _FormatFinalLines(final_lines, verify): the text, or the InternalError
\* that VerifyCode raises on the first line that does not parse.
\* The text composed without the closing newline.
FormatFinalLinesUnterminated(fl, v) ==
  LET formatted_code == [k \in 1..Len(fl) |-> LineText(fl[k])]
  IN IF v /\ \E k \in 1..Len(fl) : ~Parses(formatted_code[k])
       THEN [status |-> "raised", text |-> <<>>]
       ELSE [status |-> "returned", text |-> Concat(formatted_code)]

\* The text composed without the verification of its lines.
FormatFinalLinesUnverified(fl, v) ==
  [status |-> "returned",
   text |-> Concat([k \in 1..Len(fl) |-> LineText(fl[k])]) \o <<"\n">>]

FormatFinalLines(fl, v) ==
  LET formatted_code == [k \in 1..Len(fl) |-> LineText(fl[k])]
  IN IF v /\ \E k \in 1..Len(fl) : ~Parses(formatted_code[k])
       THEN [status |-> "raised", text |-> <<>>]
       ELSE [status |-> "returned",
             text |-> Concat(formatted_code) \o <<"\n">>]

----------------------------------------------------------------------------
(* The tokenizer upstream of Reformat (design document, section 3): token   *)
(* positions and total lengths are those of the text the tokens are read    *)
(* from.  A text is given by its tokens, each with the whitespace before   *)
(* it in the fields newlines and spaces; a logical line that starts on the *)
(* physical line of the one before it follows a ';'.                       *)

RECURSIVE FlatTokens(_)
FlatTokens(lns) ==
  IF lns = <<>> THEN <<>> ELSE Head(lns).tokens \o FlatTokens(Tail(lns))

RECURSIVE FlatStarts(_)
\* For every token of FlatTokens, whether it is the first of its line.
FlatStarts(lns) ==
  IF lns = <<>> THEN <<>>
  ELSE [i \in 1..NumTokens(Head(lns)) |-> i = 1] \o FlatStarts(Tail(lns))

\* The number of blanks a value starts with.
LeadingBlanks(value) ==
  Cardinality({i \in 1..Len(value) :
                 \A j \in 1..i : value[j] = " "})

RECURSIVE Positions(_, _, _, _, _)
\* The [lineno, column] of the tokens toks[i..] of a text, the text before
\* them ending at line lineno, column col.
Positions(toks, starts, i, lineno, col) ==
  IF i > Len(toks) THEN <<>>
  ELSE
    LET t    == toks[i]
        semi == IF starts[i] /\ i > 1 /\ t.newlines = 0
                   /\ toks[i - 1].value # <<":">>
                 THEN 1 ELSE 0
        lead == LeadingBlanks(t.value)
        ln   == lineno + t.newlines
        c    == (IF t.newlines > 0 THEN 0 ELSE col + semi) + t.spaces + lead
        body == SubSeq(t.value, lead + 1, Len(t.value))
        k    == CountNL(body)
        parts == SplitNL(body)
    IN <<[lineno |-> ln, column |-> c]>>
       \o Positions(toks, starts, i + 1, ln + k,
                    IF k = 0 THEN c + Len(body)
                    ELSE Len(parts[Len(parts)]))

\* UnwrappedLine.CalculateFormattingInformation: total_length is the width
\* of the line up to and including the token when it is not broken.
WithTotalLength(line) ==
  LET Total[i \in 1..NumTokens(line)] ==
        IF i = 1 THEN TokLen(line.tokens[1])
        ELSE Total[i - 1] + TokLen(line.tokens[i])
             + line.tokens[i].spaces_required_before
  IN [line EXCEPT !.tokens =
        [i \in 1..NumTokens(line) |->
           [line.tokens[i] EXCEPT !.total_length = Total[i]]]]

\* The number of tokens in the lines before line k.
TokensBefore(lns, k) == Len(FlatTokens(SubSeq(lns, 1, k - 1)))

\* The logical lines lns read from the text whose tokens are laid out as
\* the tokens of `laid` are: lns and laid hold the same tokens in the same
\* order, up to the ';' that only `laid` has as tokens.  Positions and
\* comment texts are the text's; the whitespace fields start empty.
Tokenize(lns, laid) ==
  LET toks == FlatTokens(laid)
      pos  == Positions(toks, FlatStarts(laid), 1, 1, 0)
      keep == {i \in 1..Len(toks) : toks[i].kind # "semi"}
      \* the index in toks of the j-th token that is no ';'
      Nth(j) == CHOOSE i \in keep :
                  Cardinality({h \in keep : h <= i}) = j
  IN [k \in 1..Len(lns) |->
        WithTotalLength(
          [lns[k] EXCEPT !.tokens =
             [i \in 1..NumTokens(lns[k]) |->
                LET n == Nth(TokensBefore(lns, k) + i)
                IN [lns[k].tokens[i] EXCEPT
                      !.lineno = pos[n].lineno,
                      !.column = pos[n].column,
                      !.value = IF IsComment(toks[n]) THEN Strip(toks[n].value)
                                ELSE @,
                      !.newlines = 0, !.spaces = 0, !.retained = FALSE]]])]

----------------------------------------------------------------------------
(* _AnalyzeSolutionSpace(initial_state), one step per loop iteration        *)

\* Lines 467-475: the start element is pushed with count 0.
AnalyzeStart ==
  /\ pc = "search"
  /\ seen' = << >>
  /\ expanded' = << >>
  /\ p_queue' = << [penalty |-> 0, count |-> 0,
                    state_node |-> StateNode(initial_state, FALSE, <<>>)] >>
  /\ count' = 1
  /\ pc' = "loop"
  /\ UNCHANGED <<call_vars, reformat_vars, uwline, initial_state, ret, path>>

RECURSIVE SearchLoopKeepsSeen(_, _, _, _, _, _)
\* A loop that leaves on the heap an item whose state is in seen.
SearchLoopKeepsSeen(line, q, set, log, cnt, n) ==
  IF q = <<>> \/ ~HasNextToken(line, Head(q).state_node.state)
    THEN [p_queue |-> q, seen |-> set, expanded |-> log, count |-> cnt,
          line |-> line, done |-> TRUE]
  ELSE IF n = 0
    THEN [p_queue |-> q, seen |-> set, expanded |-> log, count |-> cnt,
          line |-> line, done |-> FALSE]
  ELSE
    LET item == Head(q)
        node == IF cnt > RelaxThreshold
                  THEN [item.state_node EXCEPT
                          !.state.ignore_stack_for_comparison = TRUE]
                  ELSE item.state_node
    IN IF InSeen(node.state, set)
         THEN SearchLoopKeepsSeen(line, q, set, log, cnt, n - 1)
         ELSE
           LET a == AddNextStateToQueue(line, item.penalty, node, FALSE,
                                        cnt, Tail(q))
               b == AddNextStateToQueue(a.line, item.penalty, node, TRUE,
                                        a.count, a.p_queue)
           IN SearchLoopKeepsSeen(b.line, b.p_queue,
                                  SeenAdd(set, node.state),
                                  Append(log, [penalty |-> item.penalty,
                                               count |-> item.count,
                                               state_node |-> node,
                                               taken_at |-> cnt]),
                                  b.count, n - 1)

RECURSIVE SearchLoop(_, _, _, _, _, _)
\* Lines 476-495: the loop `while p_queue`, for at most n iterations; the
\* result is [p_queue, seen, expanded, count, line, done], line being the
\* line with its tokens as the loop leaves them, done telling that the loop
\* ended, and expanded being log with the items that got past `continue`.
SearchLoop(line, q, set, log, cnt, n) ==
  IF q = <<>> \/ ~HasNextToken(line, Head(q).state_node.state)
    THEN [p_queue |-> q, seen |-> set, expanded |-> log, count |-> cnt,
          line |-> line, done |-> TRUE]
  ELSE IF n = 0
    THEN [p_queue |-> q, seen |-> set, expanded |-> log, count |-> cnt,
          line |-> line, done |-> FALSE]
  ELSE
    LET item    == Head(q)
        penalty == item.penalty
        node    == IF cnt > RelaxThreshold
                     THEN [item.state_node EXCEPT
                             !.state.ignore_stack_for_comparison = TRUE]
                     ELSE item.state_node
        q0      == Tail(q)
    IN IF InSeen(node.state, set)
         THEN SearchLoop(line, q0, set, log, cnt, n - 1)
         ELSE
           LET a == AddNextStateToQueue(line, penalty, node, FALSE, cnt, q0)
               b == AddNextStateToQueue(a.line, penalty, node, TRUE,
                                        a.count, a.p_queue)
           IN SearchLoop(b.line, b.p_queue, SeenAdd(set, node.state),
                         Append(log, [penalty |-> penalty,
                                      count |-> item.count,
                                      state_node |-> node,
                                      taken_at |-> cnt]),
                         b.count, n - 1)

\* Lines 476-495: the loop, LoopBatch iterations at a time.
AnalyzeLoop ==
  /\ pc = "loop"
  /\ LET r == SearchLoop(uwline, p_queue, seen, expanded, count, LoopBatch)
     IN /\ p_queue' = r.p_queue
        /\ seen' = r.seen
        /\ expanded' = r.expanded
        /\ count' = r.count
        /\ uwline' = r.line
        /\ pc' = IF r.done THEN "after" ELSE "loop"
  /\ UNCHANGED <<call_vars, reformat_vars, initial_state, ret, path>>

\* Lines 497-502: report failure, or replay the winning path.
AnalyzeReturn ==
  /\ pc = "after"
  /\ IF p_queue = <<>>
       THEN /\ ret' = "False"
            /\ UNCHANGED <<uwline, initial_state, p_queue, path>>
     ELSE
       LET current == Head(p_queue).state_node
           r == ReconstructPath(uwline, initial_state, current)
       IN /\ ret' = "True"
          /\ p_queue' = Tail(p_queue)
          /\ path' = PathOf(current)
          /\ uwline' = r.line
          /\ initial_state' = r.state
  /\ pc' = "returned"
  /\ UNCHANGED <<call_vars, reformat_vars, seen, expanded, count>>

----------------------------------------------------------------------------
(* Reformat(uwlines, verify, lines) (reformatter.py, lines 39-107)          *)

\* prev_uwline: <<>> for None, else the line appended last.
PrevUwline(fl) == IF fl = <<>> THEN <<>> ELSE <<fl[Len(fl)]>>

\* Lines 63-74: what Reformat does to a line that is not disabled before it
\* chooses how to emit it.
PrepareEnabledLine(line, prev_uwline, lns) ==
  LET n  == NumTokens(line)
      l1 == IF IsComment(First(line))
              THEN [line EXCEPT !.tokens[1].value = RStrip(@)]
            ELSE IF IsComment(Last(line))
              THEN [line EXCEPT !.tokens[n].value = RStrip(@)]
            ELSE line
      l2 == IF prev_uwline # <<>> /\ prev_uwline[1].disable
              THEN [l1 EXCEPT !.tokens[1] =
                      RetainRequiredVerticalSpacingBetweenTokens(
                        First(l1), <<Last(prev_uwline[1])>>,
                        IF NumTokens(prev_uwline[1]) >= 2
                          THEN <<prev_uwline[1].tokens[
                                   NumTokens(prev_uwline[1]) - 1]>>
                          ELSE <<>>,
                        lns)]
              ELSE l1
  IN IF \E i \in 1..n : IsComment(l2.tokens[i])
       THEN RetainVerticalSpacingBeforeComments(l2)
       ELSE l2

\* A line that fits, emitted with the line breaks of the source.
PlaceAsInSource(line, st) == EmitLineUnformatted(line, st)

\* The loop of lines 90-91 left after its first turn.
PlaceOneToken(line, st) ==
  IF ~HasNextToken(line, st) THEN [state |-> st, line |-> line]
  ELSE LET r == AddTokenToState(line, st, FALSE, FALSE, FALSE)
       IN [state |-> r.state, line |-> r.line]

RECURSIVE PlaceOnSingleLine(_, _)
\* Lines 90-91: every remaining token is added without a newline.
PlaceOnSingleLine(line, st) ==
  IF ~HasNextToken(line, st) THEN [state |-> st, line |-> line]
  ELSE LET r == AddTokenToState(line, st, FALSE, FALSE, FALSE)
       IN PlaceOnSingleLine(r.line, r.state)

\* Lines 55-104, one iteration of the loop over _SingleOrMergedLines up to
\* the call of _AnalyzeSolutionSpace, or to the end of the iteration for a
\* line that is emitted without a search.
ReformatNextLine ==
  /\ pc = "next"
  /\ index < Len(uwlines)
  /\ LET g     == SingleOrMergedLines(uwlines, index, last_was_merged)
         f     == FormatFirstToken(First(g.uwline), g.uwline.depth,
                                   final_lines)
         line0 == [g.uwline EXCEPT !.tokens[1] = f.tok]
         prev_uwline == PrevUwline(f.final_lines)
         indent_amt  == style.INDENT_WIDTH * line0.depth
         state == MoveStateToNextToken(line0,
                    FormatDecisionState(line0, indent_amt))
         line1 == IF line0.disable THEN line0
                  ELSE PrepareEnabledLine(line0, prev_uwline, lines)
         Emitted(e) ==
           /\ final_lines' = Append(f.final_lines, e.line)
           /\ pc' = "next"
           /\ UNCHANGED <<uwline, initial_state>>
     IN /\ index' = g.index
        /\ last_was_merged' = g.last_was_merged
        /\ IF line1.disable \/ LineHasContinuationMarkers(line1)
             THEN Emitted(EmitLineUnformatted(
                    RetainRequiredVerticalSpacing(
                      RetainHorizontalSpacing(line1), prev_uwline, lines),
                    state))
           ELSE IF LineContainsPylintDisableLineTooLong(line1)
                   \/ LineContainsI18n(line1)
             THEN Emitted(EmitLineUnformatted(
                    RetainRequiredVerticalSpacing(line1, prev_uwline, lines),
                    state))
           ELSE IF /\ CanPlaceOnSingleLine(line1)
                   /\ ~ \E i \in 1..NumTokens(line1) :
                          line1.tokens[i].must_split
             THEN Emitted(PlaceOnSingleLine(line1, state))
           ELSE /\ uwline' = line1
                /\ initial_state' = state
                /\ final_lines' = f.final_lines
                /\ pc' = "search"
  /\ UNCHANGED <<call_vars, search_vars, result>>

\* An iteration that ends with the line appended as the search left it,
\* whatever the search returned.
ReformatAfterSearchNoFailsafe ==
  /\ pc = "returned"
  /\ final_lines' = Append(final_lines, uwline)
  /\ pc' = "next"
  /\ UNCHANGED <<call_vars, search_vars, index, last_was_merged, result,
                 uwline, initial_state>>

\* Lines 94-104: back from _AnalyzeSolutionSpace; the failsafe when it
\* returned False, and the end of the iteration.
ReformatAfterSearch ==
  /\ pc = "returned"
  /\ LET prev_uwline == PrevUwline(final_lines)
         indent_amt  == style.INDENT_WIDTH * uwline.depth
     IN IF ret = "False"
          THEN
            LET state == MoveStateToNextToken(uwline,
                           FormatDecisionState(uwline, indent_amt))
                e == EmitLineUnformatted(
                       RetainRequiredVerticalSpacing(
                         RetainHorizontalSpacing(uwline), prev_uwline, {}),
                       state)
            IN /\ final_lines' = Append(final_lines, e.line)
               /\ uwline' = e.line
               /\ initial_state' = e.state
          ELSE /\ final_lines' = Append(final_lines, uwline)
               /\ UNCHANGED <<uwline, initial_state>>
  /\ pc' = "next"
  /\ UNCHANGED <<call_vars, search_vars, index, last_was_merged, result>>

\* Lines 106-107: the generator is exhausted.
ReformatEnd ==
  /\ pc = "next"
  /\ index >= Len(uwlines)
  /\ LET aligned == AlignTrailingComments(final_lines)
     IN /\ final_lines' = aligned
        /\ result' = FormatFinalLines(aligned, verify)
  /\ pc' = "done"
  /\ UNCHANGED <<call_vars, search_vars, index, last_was_merged, uwline,
                 initial_state>>

\* The split penalties of the logical lines under a style whose weight for
\* the splits of one syntactic category, the splits before the tokens of
\* `kind`, is higher by `by`: the weight is part of the split penalty of
\* every token of the category (the first token of a line has none).
RaiseCategoryWeight(lns, kind, by) ==
  [k \in 1..Len(lns) |->
     [lns[k] EXCEPT !.tokens =
        [i \in 1..NumTokens(lns[k]) |->
           IF i > 1 /\ lns[k].tokens[i].kind = kind
             THEN [lns[k].tokens[i] EXCEPT !.split_penalty = @ + by]
             ELSE lns[k].tokens[i]]]]

\* The caller runs Reformat once more: on the logical lines read from the
\* text of the first run, under the same style; or, when it changes a
\* weight, on the logical lines of the first run under the changed style.
ReformatAgain ==
  /\ pc = "done"
  /\ run < runs
  /\ result.status = "returned"
  /\ IF reweigh.by = 0
       THEN /\ uwlines' = Tokenize(uwlines, final_lines)
            /\ style' = style
     ELSE IF reweigh.weight = "SPLIT_PENALTY_FOR_ADDED_LINE_SPLIT"
       THEN /\ uwlines' = uwlines
            /\ style' = [style EXCEPT !.SPLIT_PENALTY_FOR_ADDED_LINE_SPLIT =
                                        @ + reweigh.by]
     ELSE /\ uwlines' = RaiseCategoryWeight(uwlines, reweigh.kind, reweigh.by)
          /\ style' = style
  /\ first_result' = result
  /\ first_lines' = final_lines
  /\ run' = run + 1
  /\ index' = 0
  /\ last_was_merged' = FALSE
  /\ final_lines' = <<>>
  /\ result' = [status |-> "none", text |-> <<>>]
  /\ pc' = "next"
  /\ UNCHANGED <<style_config, messages, checked, lines, verify, runs,
                 reweigh, search_vars, uwline, initial_state,
                 global_style_factory>>

----------------------------------------------------------------------------
(* The inputs                                                               *)

\* The longest list of logical lines Reformat is given.
MaxLines == 2

\* A token as the passes upstream of Reformat deliver it, with the
\* whitespace before it in the text it is read from.
Token(value, kind, newlines, spaces, required, must, can, penalty, tag) ==
  [ value |-> value, kind |-> kind, lineno |-> 0, column |-> 0,
    must_split |-> must, can_split |-> can,
    split_penalty |-> penalty,
    spaces_required_before |-> required, columns |-> <<>>,
    total_length |-> 0, tag |-> tag,
    newlines |-> newlines, spaces |-> spaces, retained |-> FALSE ]

\* The first token of a logical line: no hint applies to it.
FirstToken(value, kind, newlines, spaces) ==
  Token(value, kind, newlines, spaces, 0, FALSE, FALSE, 0, "")

\* A trailing comment; the space before it is the style's.
Comment(value, kind, spaces, must_split, tag) ==
  Token(value, kind, 0, spaces, 0, must_split, FALSE, 0, tag)

Line(tokens, depth, disable) ==
  [tokens |-> tokens, depth |-> depth, disable |-> disable]

\* unwrapped_line._SpaceRequiredBetween for a comment that is not the first
\* token of its line: SPACES_BEFORE_COMMENT, an int or a list.
WithCommentSpacing(line) ==
  [line EXCEPT !.tokens =
     [i \in 1..NumTokens(line) |->
        LET tok == line.tokens[i]
        IN IF i > 1 /\ IsComment(tok)
             THEN IF Len(style.SPACES_BEFORE_COMMENT) = 1
                    THEN [tok EXCEPT !.spaces_required_before =
                                       style.SPACES_BEFORE_COMMENT[1]]
                    ELSE [tok EXCEPT !.spaces_required_before = 0,
                                     !.columns = style.SPACES_BEFORE_COMMENT]
             ELSE tok]]

\* The logical lines of a text, given as Tokenize takes a text.
Source(text) ==
  LET lns == [k \in 1..Len(text) |-> WithCommentSpacing(text[k])]
  IN Tokenize(lns, lns)

\* `a  =   b`
LShort ==
  Line(<< FirstToken(<<"a">>, "name", 1, 0),
          Token(<<"=">>, "name", 0, 2, 1, FALSE, FALSE, 0, ""),
          Token(<<"b">>, "name", 0, 3, 1, FALSE, TRUE, 0, "") >>, 0, FALSE)

\* `aaaa bbbb cccc` after a blank line
LLong ==
  Line(<< FirstToken(Rep("a", 4), "name", 2, 0),
          Token(Rep("b", 4), "name", 0, 1, 1, FALSE, TRUE, 0, ""),
          Token(Rep("c", 4), "name", 0, 1, 1, FALSE, TRUE, 10, "") >>,
       0, FALSE)

\* `nnnnn aaaaa`: the split before the second token has the penalty of a
\* split after a unary operator, more than that of a character too many
LHeavy ==
  Line(<< FirstToken(Rep("n", 5), "name", 1, 0),
          Token(Rep("a", 5), "name", 0, 1, 1, FALSE, TRUE, 10000, "") >>,
       0, FALSE)

\* contradictory hints: the second token must and cannot be split from the
\* first
LContra ==
  Line(<< FirstToken(Rep("a", 6), "name", 1, 0),
          Token(Rep("b", 6), "name", 0, 2, 1, TRUE, FALSE, 0, "") >>,
       0, FALSE)

\* `aaa; d`, in a disabled region: two logical lines on one physical line
LDisabled ==
  Line(<< FirstToken(Rep("a", 3), "name", 1, 0) >>, 0, TRUE)
LDisabledNext ==
  Line(<< FirstToken(<<"d">>, "name", 0, 1) >>, 0, TRUE)

\* `aaaaaaaa  \` and, on the next line, `  b`
LCont ==
  Line(<< FirstToken(Rep("a", 8), "name", 1, 0),
          Token(<<"\\">>, "cont", 0, 2, 1, FALSE, FALSE, 0, ""),
          Token(<<"b">>, "name", 1, 2, 1, FALSE, TRUE, 0, "") >>, 0, FALSE)

\* `aaaaaa  b #p`, the comment a pylint line-too-long suppression
LPylint ==
  Line(<< FirstToken(Rep("a", 6), "name", 1, 0),
          Token(<<"b">>, "name", 0, 2, 1, FALSE, TRUE, 0, ""),
          Comment(<<"#", "p">>, "pylint", 1, FALSE, "line-too-long") >>,
       0, FALSE)

\* `aaaaaa b #t`, the comment a pytype one
LPytype ==
  Line(<< FirstToken(Rep("a", 6), "name", 1, 0),
          Token(<<"b">>, "name", 0, 1, 1, FALSE, TRUE, 0, ""),
          Comment(<<"#", "t">>, "pytype", 1, FALSE, "") >>, 0, FALSE)

\* `aaa # c`
LComment ==
  Line(<< FirstToken(Rep("a", 3), "name", 1, 0),
          Comment(<<"#", "c">>, "comment", 1, FALSE, "") >>, 0, FALSE)

\* `zzz # c`, the name n characters long
LAligned(n) ==
  Line(<< FirstToken(Rep("z", n), "name", 1, 0),
          Comment(<<"#", "c">>, "comment", 1, FALSE, "") >>, 0, FALSE)

\* `ffff(aaaa` and, on the next line, `     bbbb)`
LParen ==
  Line(<< FirstToken(Rep("f", 4), "name", 1, 0),
          Token(<<"(">>, "open", 0, 0, 0, FALSE, FALSE, 0, ""),
          Token(Rep("a", 4), "name", 0, 0, 0, FALSE, TRUE, 0, ""),
          Token(Rep("b", 4), "name", 1, 5, 1, FALSE, TRUE, 0, ""),
          Token(<<")">>, "close", 0, 0, 0, FALSE, FALSE, 0, "") >>,
       0, FALSE)

\* `a(  #c` and, on the next line, `b)`, the token after the comment
\* lacking the must_split hint
LSwallow ==
  Line(<< FirstToken(<<"a">>, "name", 1, 0),
          Token(<<"(">>, "open", 0, 0, 0, FALSE, FALSE, 0, ""),
          Comment(<<"#", "c">>, "comment", 2, FALSE, ""),
          Token(<<"b">>, "name", 1, 4, 0, FALSE, TRUE, 0, ""),
          Token(<<")">>, "close", 0, 0, 0, FALSE, FALSE, 0, "") >>,
       0, FALSE)

\* an indented `b` after two blank lines, in a text indented by 2
LDeep ==
  Line(<< FirstToken(<<"b">>, "name", 3, 2) >>, 1, FALSE)

Catalog ==
  { LShort, LLong, LHeavy, LContra, LDisabled, LDisabledNext, LCont,
    LPylint, LPytype, LComment, LParen, LSwallow, LDeep,
    LAligned(7), LAligned(8), LAligned(19), LAligned(20) }

\* The texts: a logical line starts on the physical line of the one before
\* it only where there is one, and both are enabled or both are disabled.
WellFormed(text) ==
  \A k \in 1..Len(text) :
    First(text[k]).newlines = 0
      => k > 1 /\ text[k - 1].disable = text[k].disable

Texts(catalog, n) ==
  {text \in UNION {[1..m -> catalog] : m \in 0..n} : WellFormed(text)}

NarrowStyle == [PEP8Style EXCEPT !.COLUMN_LIMIT = 10]
ColumnsStyle == [PEP8Style EXCEPT !.SPACES_BEFORE_COMMENT = <<10, 20>>]

\* The state in which Reformat is entered by a caller that changes, for a
\* second run, one of `changes`.
EnteredBy(styles, texts, editable, callers, changes) ==
  /\ style_config = None
  /\ messages = <<>>
  /\ checked = 0
  /\ style \in styles
  /\ global_style_factory = "pep8"
  /\ uwlines \in {Source(text) : text \in texts}
  /\ lines \in editable
  /\ verify \in BOOLEAN
  /\ runs \in IF lines = {} THEN callers ELSE {1}
  /\ run = 1
  /\ first_result = [status |-> "none", text |-> <<>>]
  /\ first_lines = <<>>
  /\ reweigh \in changes
  /\ index = 0
  /\ last_was_merged = FALSE
  /\ final_lines = <<>>
  /\ uwline = Line(<<>>, 0, FALSE)
  /\ initial_state = FormatDecisionState(uwline, 0)
  /\ p_queue = <<>>
  /\ seen = << >>
  /\ expanded = << >>
  /\ count = 0
  /\ ret = "none"
  /\ path = <<>>
  /\ pc = "next"
  /\ result = [status |-> "none", text |-> <<>>]

\* No weight is changed.
SameWeights == [weight |-> "none", kind |-> "", by |-> 0]

\* The state in which Reformat is entered.
Entered(styles, texts, editable, callers) ==
  EnteredBy(styles, texts, editable, callers, {SameWeights})

Init ==
  Entered({PEP8Style, NarrowStyle, ColumnsStyle}, Texts(Catalog, MaxLines),
          {{}, {1, 2}}, {1, 2})

\* `a ( ( ( ( ( ( (( (( (( b ccccc))))))))))))`: twelve nested brackets, a
\* split allowed before each opening one and before the two names.
LNested ==
  LET gaps == <<1, 1, 1, 1, 1, 1, 0, 1, 0, 1, 0, 1>>
  IN Line(<< FirstToken(<<"a">>, "name", 1, 0) >>
          \o [i \in 1..12 |->
                Token(<<"(">>, "open", 0, gaps[i], gaps[i], FALSE, TRUE, 0, "")]
          \o << Token(<<"b">>, "name", 0, 1, 1, FALSE, TRUE, 0, ""),
                Token(Rep("c", 5), "name", 0, 1, 1, FALSE, TRUE, 0, "") >>
          \o [i \in 1..12 |->
                Token(<<")">>, "close", 0, 0, 0, FALSE, FALSE, 0, "")],
          0, FALSE)

MediumStyle == [PEP8Style EXCEPT !.COLUMN_LIMIT = 20]

\* `a(  #c` and, on the next line, `bbbb, cc)`: the token after the comment
\* must be split from it, no split is allowed before the brackets and the
\* comma
LForced ==
  Line(<< FirstToken(<<"a">>, "name", 1, 0),
          Token(<<"(">>, "open", 0, 0, 0, FALSE, FALSE, 0, ""),
          Comment(<<"#", "c">>, "comment", 2, FALSE, ""),
          Token(Rep("b", 4), "name", 1, 4, 0, TRUE, TRUE, 0, ""),
          Token(<<",">>, "name", 0, 0, 0, FALSE, FALSE, 0, ""),
          Token(Rep("c", 2), "name", 0, 1, 1, FALSE, TRUE, 0, ""),
          Token(<<")">>, "close", 0, 0, 0, FALSE, FALSE, 0, "") >>,
       0, FALSE)

\* Reformat is entered with one line; the search of LNested inserts more
\* than RelaxThreshold states.
InitRelaxed ==
  \/ Entered({MediumStyle}, {<<LNested>>}, {{}}, {1}) /\ ~verify
  \/ Entered({NarrowStyle, MediumStyle},
             Texts({LShort, LLong, LHeavy, LContra, LParen, LForced}, 1),
             {{}}, {1, 2})

\* `aaaa (bbbbbb)(ccc dd)(e f)`: a split is allowed before each opening
\* bracket and before each name in brackets but the first.
LGroups ==
  Line(<< FirstToken(Rep("a", 4), "name", 1, 0),
          Token(<<"(">>, "open", 0, 1, 1, FALSE, TRUE, 0, ""),
          Token(Rep("b", 6), "name", 0, 0, 0, FALSE, FALSE, 40, ""),
          Token(<<")">>, "close", 0, 0, 0, FALSE, FALSE, 0, ""),
          Token(<<"(">>, "open", 0, 0, 0, FALSE, TRUE, 0, ""),
          Token(Rep("c", 3), "name", 0, 0, 0, FALSE, TRUE, 40, ""),
          Token(Rep("d", 2), "name", 0, 1, 1, FALSE, TRUE, 40, ""),
          Token(<<")">>, "close", 0, 0, 0, FALSE, FALSE, 0, ""),
          Token(<<"(">>, "open", 0, 0, 0, FALSE, TRUE, 0, ""),
          Token(<<"e">>, "name", 0, 0, 0, FALSE, TRUE, 40, ""),
          Token(<<"f">>, "name", 0, 1, 1, FALSE, TRUE, 40, ""),
          Token(<<")">>, "close", 0, 0, 0, FALSE, FALSE, 0, "") >>,
       0, FALSE)

\* `aa (bbbb c d) eeee(fff)`
LArgs ==
  Line(<< FirstToken(Rep("a", 2), "name", 1, 0),
          Token(<<"(">>, "open", 0, 1, 1, FALSE, TRUE, 10, ""),
          Token(Rep("b", 4), "name", 0, 0, 0, FALSE, TRUE, 40, ""),
          Token(<<"c">>, "name", 0, 1, 1, FALSE, TRUE, 40, ""),
          Token(<<"d">>, "name", 0, 1, 1, FALSE, TRUE, 40, ""),
          Token(<<")">>, "close", 0, 0, 0, FALSE, FALSE, 0, ""),
          Token(Rep("e", 4), "name", 0, 1, 1, FALSE, TRUE, 10, ""),
          Token(<<"(">>, "open", 0, 0, 0, FALSE, TRUE, 10, ""),
          Token(Rep("f", 3), "name", 0, 0, 0, FALSE, TRUE, 40, ""),
          Token(<<")">>, "close", 0, 0, 0, FALSE, FALSE, 0, "") >>,
       0, FALSE)

GroupsStyle == [PEP8Style EXCEPT !.COLUMN_LIMIT = 12]

\* The changes of one split-penalty weight a caller makes between two runs:
\* the weight of each added line split, or the weight of the splits before
\* an opening bracket or before a name.
RaisedWeights ==
  {[weight |-> "SPLIT_PENALTY_FOR_ADDED_LINE_SPLIT", kind |-> "", by |-> by] :
     by \in {10, 60}}
  \cup {[weight |-> "category", kind |-> kind, by |-> by] :
          kind \in {"open", "name"}, by \in {20, 60}}

\* Reformat is entered by a caller that runs it twice on the same logical
\* lines, the second time with one weight raised.
InitWeights ==
  EnteredBy({GroupsStyle, MediumStyle},
            Texts({LGroups, LArgs, LLong, LParen, LHeavy, LContra}, MaxLines),
            {{}}, {2}, RaisedWeights)

\* COLUMN_LIMIT set to 0.
ZeroStyle == [PEP8Style EXCEPT !.COLUMN_LIMIT = 0]

\* Reformat is entered under a style whose COLUMN_LIMIT is 0.
InitZero ==
  Entered({ZeroStyle}, Texts(Catalog, MaxLines), {{}, {1, 2}}, {1, 2})

\* Reformat is entered with an edit range that holds the first line of the
\* text (line 2, after one blank line) and the line after it, or the two
\* lines after it, or with none.
InitRanges ==
  Entered({PEP8Style, NarrowStyle},
          Texts({LShort, LLong, LContra, LDisabled, LDisabledNext, LCont,
                 LPylint, LComment, LDeep}, MaxLines),
          {{}, {2, 3}, {3, 4}}, {1, 2})

\* `if a:`, and the same in a disabled region
LIf ==
  Line(<< FirstToken(V_if, "name", 1, 0),
          Token(<<"a">>, "name", 0, 1, 1, FALSE, FALSE, 0, ""),
          Token(<<":">>, "name", 0, 0, 0, FALSE, FALSE, 0, "") >>, 0, FALSE)
LIfDisabled == [LIf EXCEPT !.disable = TRUE]

\* `else:`
LElse ==
  Line(<< FirstToken(V_else, "name", 1, 0),
          Token(<<":">>, "name", 0, 0, 0, FALSE, FALSE, 0, "") >>, 0, FALSE)

\* `    b`, the one statement of a body
LBody == Line(<< FirstToken(<<"b">>, "name", 1, 4) >>, 1, FALSE)

\* `# c`, a comment line in a disabled region
LNote == Line(<< FirstToken(<<"#", "c">>, "comment", 1, 0) >>, 0, TRUE)

\* The longest text of InitMerge, in lines.
MaxMergeLines == 5

\* A header is followed by its body, a body follows a header, and an else
\* follows the body of an if, with at most a comment line in between.
Nested(text) ==
  \A k \in 1..Len(text) :
    LET IsHeader(j) == Last(text[j]).value = <<":">>
    IN  /\ IsHeader(k) =>
             /\ k < Len(text)
             /\ \/ text[k + 1].depth = 1
                \/ First(text[k + 1]).newlines = 0
        /\ text[k].depth = 1 => k > 1 /\ IsHeader(k - 1)
        /\ text[k] = LElse =>
             \/ k > 2 /\ text[k - 1].depth = 1
             \/ k > 3 /\ text[k - 1] = LNote /\ text[k - 2].depth = 1
        /\ k > 1 /\ IsComment(Last(text[k - 1])) =>
             First(text[k]).newlines > 0

\* Reformat is entered with a text of headers and bodies that may be
\* merged, and of lines of a disabled region.
InitMerge ==
  Entered({PEP8Style, NarrowStyle},
          {text \in Texts({LIf, LIfDisabled, LElse, LBody, LNote, LLong,
                           LDisabled, LDisabledNext}, MaxMergeLines) :
             Nested(text)},
          {{}}, {1, 2})

\* `aaaaaaaaaaaa  # d` in a disabled region
LDisabledComment ==
  Line(<< FirstToken(Rep("a", 12), "name", 1, 0),
          Comment(<<"#", "d">>, "comment", 2, FALSE, "") >>, 0, TRUE)

\* `# c`, a comment on a line of its own
LOwnLine == Line(<< FirstToken(<<"#", "c">>, "comment", 1, 0) >>, 0, FALSE)

\* The longest text of InitAlign, in lines.
MaxAlignLines == 3

\* Reformat is entered with a text of lines with trailing comments, some of
\* them in a disabled region, under a style that aligns trailing comments
\* to columns or under one that does not.
InitAlign ==
  Entered({ColumnsStyle, NarrowStyle},
          Texts({LComment, LAligned(8), LAligned(19), LDisabledComment,
                 LOwnLine, LSwallow, LLong, LContra}, MaxAlignLines),
          {{}}, {1, 2})

Next ==
  \/ ReformatNextLine
  \/ AnalyzeStart
  \/ AnalyzeLoop
  \/ AnalyzeReturn
  \/ ReformatAfterSearch
  \/ ReformatEnd
  \/ ReformatAgain

Spec == Init /\ [][Next]_vars

SpecRelaxed == InitRelaxed /\ [][Next]_vars

SpecWeights == InitWeights /\ [][Next]_vars

SpecZero == InitZero /\ [][Next]_vars

SpecRanges == InitRanges /\ [][Next]_vars

SpecMerge == InitMerge /\ [][Next]_vars

SpecAlign == InitAlign /\ [][Next]_vars

\* A turn of _AnalyzeSolutionSpace as pc and count show it: the start, at
\* most LoopBatch iterations of the loop, each inserting at most two items,
\* or the return.
SearchTurn ==
  \/ pc = "search" /\ pc' = "loop" /\ count' = 1
  \/ pc = "loop" /\ pc' \in {"loop", "after"}
                 /\ count' \in count..(count + 2 * LoopBatch)
  \/ pc = "after" /\ pc' = "returned" /\ count' = count

\* The program is sequential: the search, once called, goes on running.
\* Fairness is stated for SearchTurn, whose ENABLED is read off pc; that the
\* loop can take a turn wherever pc = "loop" is part of what is checked.
SpecTerminates ==
  InitRelaxed /\ [][Next]_vars /\ WF_<<pc, count>>(SearchTurn)

----------------------------------------------------------------------------
(* The style made from a config string (style.py)                          *)
(*                                                                         *)
(* Option names and option values are strings; Len, SubSeq and \o act on   *)
(* a string as on the sequence of its characters.  The style dict has the  *)
(* options of PEP8Style and the naming options, and the converter table    *)
(* is kept to the naming options: no config string below names another.    *)
(***************************************************************************)

Lowercase == "abcdefghijklmnopqrstuvwxyz"
Uppercase == "ABCDEFGHIJKLMNOPQRSTUVWXYZ"
Digits == "0123456789"

\* Whether the character c is one of the characters of `class`.
OneOf(c, class) == \E k \in 1..Len(class) : SubSeq(class, k, k) = c

\* str.upper and str.lower, on ASCII: a character of `from` becomes the
\* character of `to` at the same place.
RECURSIVE Recase(_, _, _)
Recase(s, from, to) ==
  IF s = "" THEN ""
  ELSE LET c == SubSeq(s, 1, 1)
           k == CHOOSE k \in 1..Len(from) : SubSeq(from, k, k) = c
       IN (IF OneOf(c, from) THEN SubSeq(to, k, k) ELSE c)
            \o Recase(SubSeq(s, 2, Len(s)), from, to)

\* str.strip(chars)
RECURSIVE StripChars(_, _)
StripChars(s, chars) ==
  IF s # "" /\ OneOf(SubSeq(s, 1, 1), chars)
    THEN StripChars(SubSeq(s, 2, Len(s)), chars)
  ELSE IF s # "" /\ OneOf(SubSeq(s, Len(s), Len(s)), chars)
    THEN StripChars(SubSeq(s, 1, Len(s) - 1), chars)
  ELSE s

\* str.replace(old, ''), old one character
RECURSIVE Without(_, _)
Without(s, old) ==
  IF s = "" THEN ""
  ELSE (IF SubSeq(s, 1, 1) = old THEN "" ELSE SubSeq(s, 1, 1))
         \o Without(SubSeq(s, 2, Len(s)), old)

\* An accepted style but for its underscores: the mutant of
\* _NamingStyleStringConverter that does not remove them.
NamingStyleKeepsUnderscores(s) ==
  LET n == Recase(Without(StripChars(s, "\"'"), "-"), Lowercase, Uppercase)
  IN  IF s = "" THEN [raised |-> "none", value |-> None]
      ELSE IF n \notin {"PASCALCASE", "CAMELCASE", "SNAKECASE", "NONE"}
        THEN [raised |-> "ValueError", value |-> None]
      ELSE [raised |-> "none", value |-> IF n # "NONE" THEN n ELSE None]

\* _NamingStyleStringConverter (lines 705-716): the value returned, or the
\* exception raised.
NamingStyleStringConverter(s) ==
  LET accepted_styles == {"PASCALCASE", "CAMELCASE", "SNAKECASE", "NONE"}
      n == Recase(Without(Without(StripChars(s, "\"'"), "_"), "-"),
                  Lowercase, Uppercase)
  IN  IF s = "" THEN [raised |-> "none", value |-> None]
      ELSE IF n \notin accepted_styles
        THEN [raised |-> "ValueError", value |-> None]
      ELSE [raised |-> "none", value |-> IF n # "NONE" THEN n ELSE None]

\* The options of _STYLE_OPTION_VALUE_CONVERTER (lines 742-746) whose
\* converter is _NamingStyleStringConverter.
NamingOptions ==
  {"CHECK_CLASS_NAMING_STYLE", "CHECK_FUNC_NAMING_STYLE",
   "CHECK_MODULE_NAMING_STYLE", "CHECK_VAR_NAMING_STYLE"}

\* _STYLE_NAME_TO_FACTORY (lines 636-642): CreatePEP8Style (lines 485-489)
\* and, through CreateGoogleStyle (lines 556-572), CreateHuaweiStyle (lines
\* 575-604), in the options kept.
StyleNameToFactory(based_on) ==
  IF based_on = "huawei"
    THEN [ COLUMN_LIMIT                          |-> 80,
           I18N_COMMENT                          |-> TRUE,
           I18N_FUNCTION_CALL                    |-> {<<"N", "_">>, <<"_">>},
           BLANK_LINE_BEFORE_NESTED_CLASS_OR_DEF |-> TRUE,
           CHECK_CLASS_NAMING_STYLE              |-> "PASCALCASE",
           CHECK_FUNC_NAMING_STYLE               |-> "SNAKECASE",
           CHECK_MODULE_NAMING_STYLE             |-> "SNAKECASE",
           CHECK_VAR_NAMING_STYLE                |-> "SNAKECASE" ] @@ PEP8Style
  ELSE [ CHECK_CLASS_NAMING_STYLE  |-> None,
         CHECK_FUNC_NAMING_STYLE   |-> None,
         CHECK_MODULE_NAMING_STYLE |-> None,
         CHECK_VAR_NAMING_STYLE    |-> None ] @@ PEP8Style

\* What the value group of the pattern of
\* _CreateConfigParserFromConfigString (lines 874-879) reads of the text
\* after `key:`: a quoted string with its quotes, or else the leading run of
\* letters, digits and underscores; "" when it reads nothing.
ValueRead(text) ==
  LET Word == Lowercase \o Uppercase \o Digits \o "_"
      At(k) == SubSeq(text, k, k)
      Closes(k) == At(k) = At(1) /\ \A j \in 2..(k - 1) : At(j) # At(1)
      Run(n) == /\ \A j \in 1..n : OneOf(At(j), Word)
                /\ n = Len(text) \/ ~OneOf(At(n + 1), Word)
  IN  IF text # "" /\ OneOf(At(1), "\"'")
        THEN IF \E k \in 2..Len(text) : Closes(k)
               THEN SubSeq(text, 1, CHOOSE k \in 2..Len(text) : Closes(k))
             ELSE ""
      ELSE SubSeq(text, 1, CHOOSE n \in 0..Len(text) : Run(n))

\* _CreateConfigParserFromConfigString (lines 868-881).  The config string
\* `{key: text, ...}` is the sequence of its [key, text]; the parser holds
\* the [key, value] the pattern finds.
CreateConfigParserFromConfigString(config_string) ==
  SelectSeq([k \in 1..Len(config_string) |->
               [key |-> config_string[k].key,
                value |-> ValueRead(config_string[k].text)]],
            LAMBDA item : item.value # "")

\* _CreateStyleFromConfigParser (lines 908-945): the style, or the
\* StyleConfigError raised.
CreateStyleFromConfigParser(config) ==
  LET Lower(s) == Recase(s, Uppercase, Lowercase)
      Upper(s) == Recase(s, Lowercase, Uppercase)
      IsBase(k) == Lower(config[k].key) = "based_on_style"
      base_style ==
        IF \E k \in 1..Len(config) : IsBase(k)
          THEN StyleNameToFactory(
                 Lower(config[CHOOSE k \in 1..Len(config) : IsBase(k)].value))
        ELSE StyleNameToFactory(global_style_factory)
      RECURSIVE Update(_, _)
      Update(st, k) ==
        IF k > Len(config) THEN [raised |-> "none", style |-> st]
        ELSE IF IsBase(k) THEN Update(st, k + 1)
        ELSE IF Upper(config[k].key) \notin NamingOptions
          THEN [raised |-> "StyleConfigError", style |-> st]
        ELSE LET option == Upper(config[k].key)
                 v == NamingStyleStringConverter(config[k].value)
             IN  IF v.raised = "ValueError"
                   THEN [raised |-> "StyleConfigError", style |-> st]
                 ELSE Update([st EXCEPT ![option] = v.value], k + 1)
  IN  Update(base_style, 1)

\* _GetStyleFactory(style) (lines 653-657), among the styles of
\* StyleNameToFactory: the name of the factory, None when there is none.
GetStyleFactory(st) ==
  IF st = StyleNameToFactory("pep8") THEN "pep8"
  ELSE IF st = StyleNameToFactory("huawei") THEN "huawei"
  ELSE None

\* What SetGlobalStyle(st) leaves in _GLOBAL_STYLE_FACTORY (lines 46-50).
FactoryAfterSetGlobalStyle(st) ==
  IF GetStyleFactory(st) # None THEN GetStyleFactory(st)
  ELSE global_style_factory

\* CreateStyleFromConfig with what it has written to its base style when
\* it raises left in the global style.
CreateStyleFromConfigInPlace ==
  /\ pc = "config"
  /\ LET r == CreateStyleFromConfigParser(
                CreateConfigParserFromConfigString(style_config))
     IN  /\ style' = r.style
         /\ global_style_factory' = global_style_factory
         /\ result' = IF r.raised = "none" THEN result
                      ELSE [status |-> r.raised, text |-> <<>>]
         /\ pc' = IF r.raised = "none" THEN "check" ELSE "failed"
  /\ UNCHANGED <<style_config, messages, checked, uwlines, lines, verify,
                 runs, run, first_result, first_lines, reweigh, index,
                 last_was_merged, final_lines, uwline, initial_state,
                 search_vars>>

\* CreateStyleFromConfig on a config string (lines 850-856), and
\* SetGlobalStyle on what it returns.
CreateStyleFromConfig ==
  /\ pc = "config"
  /\ LET r == CreateStyleFromConfigParser(
                CreateConfigParserFromConfigString(style_config))
     IN  IF r.raised = "none"
           THEN /\ style' = r.style
                /\ global_style_factory' = FactoryAfterSetGlobalStyle(r.style)
                /\ result' = result
                /\ pc' = "check"
         ELSE /\ style' = style
              /\ global_style_factory' = global_style_factory
              /\ result' = [status |-> r.raised, text |-> <<>>]
              /\ pc' = "failed"
  /\ UNCHANGED <<style_config, messages, checked, uwlines, lines, verify,
                 runs, run, first_result, first_lines, reweigh, index,
                 last_was_merged, final_lines, uwline, initial_state,
                 search_vars>>

----------------------------------------------------------------------------
(* The naming recommendations (warnings_utils.py)                          *)
(*                                                                         *)
(* For check_all_recommendations a token is [name, value, is_name,         *)
(* parameters]: the name of its lib2to3 type, its text, whether it is a    *)
(* name and no keyword, and the parameters it opens, each the places       *)
(* [first, last] of its first and last token in the line.  A line is       *)
(* [tokens, in_expr_stmt, is_func_definition]; in_expr_stmt is whether the *)
(* node of its first token lies in an expr_stmt of the syntax tree.        *)
(***************************************************************************)

\* str.isupper: a cased character, and none in lower case.
IsUpper(s) ==
  /\ \E k \in 1..Len(s) : OneOf(SubSeq(s, k, k), Uppercase)
  /\ \A k \in 1..Len(s) : ~OneOf(SubSeq(s, k, k), Lowercase)

\* NAMING_STYLE_REGEXPS['varname'][naming_style_name].match(s) (lines
\* 94-98): up to two underscores, a first character and the others of the
\* style, or two underscores at either end.
VarnameMatch(naming_style_name, s) ==
  LET first == IF naming_style_name = "PASCALCASE" THEN Uppercase
               ELSE Lowercase
      others == IF naming_style_name = "SNAKECASE"
                  THEN Lowercase \o Digits \o "_"
                ELSE Lowercase \o Uppercase \o Digits
      At(k) == SubSeq(s, k, k)
  IN  \/ \E u \in 0..2 :
           /\ Len(s) > u
           /\ \A j \in 1..u : At(j) = "_"
           /\ OneOf(At(u + 1), first)
           /\ \A j \in (u + 2)..Len(s) : OneOf(At(j), others)
      \/ /\ Len(s) >= 4
         /\ SubSeq(s, 1, 2) = "__"
         /\ SubSeq(s, Len(s) - 1, Len(s)) = "__"

\* warn_vars_naming_style (lines 277-343) on line number n: the messages
\* with the warnings it adds, each [line, tok, variable] for the token at
\* place tok of the line.
WarnVarsNamingStyle(msgs, n, line, st) ==
  LET naming_style_name == st.CHECK_VAR_NAMING_STYLE
      toks == line.tokens
      places == 1..Len(toks)
      is_assignment ==
        /\ toks # <<>> /\ line.in_expr_stmt
        /\ \E i \in places : toks[i].is_name
      \* get_lhs_tokens: the NAME tokens before the first EQUAL
      lhs == {i \in places : /\ toks[i].name = "NAME"
                             /\ \A j \in 1..i : toks[j].name # "EQUAL"}
      \* get_func_args: the first NAME token of each parameter
      args == {i \in places :
                 \E o \in places : \E p \in 1..Len(toks[o].parameters) :
                   LET item == toks[o].parameters[p]
                   IN  /\ i \in item.first..item.last
                       /\ toks[i].name = "NAME"
                       /\ \A j \in item.first..(i - 1) : toks[j].name # "NAME"}
      tokens == IF is_assignment THEN lhs
                ELSE IF toks # <<>> /\ line.is_func_definition THEN args
                ELSE {}
      warned == {i \in tokens :
                   ~ \/ toks[i].value = "self"
                     \/ IsUpper(toks[i].value)
                     \/ VarnameMatch(naming_style_name, toks[i].value)}
      RECURSIVE Added(_)
      Added(i) ==
        IF i > Len(toks) THEN <<>>
        ELSE (IF i \in warned
                THEN <<[line |-> n, tok |-> i, variable |-> toks[i].value]>>
              ELSE <<>>) \o Added(i + 1)
  IN  IF naming_style_name = None THEN msgs ELSE msgs \o Added(1)

\* One turn of the loop of check_all_recommendations (lines 111-117), which
\* FormatCode runs on the logical lines before Reformat; of the warnings
\* only those of warn_vars_naming_style are kept.
CheckAllRecommendations ==
  /\ pc = "check"
  /\ checked < Len(uwlines)
  /\ messages' = WarnVarsNamingStyle(messages, checked + 1,
                                     uwlines[checked + 1], style)
  /\ checked' = checked + 1
  /\ pc' = IF checked + 1 = Len(uwlines) THEN "checked" ELSE "check"
  /\ UNCHANGED <<style_config, style, global_style_factory, uwlines, lines,
                 verify, runs, run,
                 first_result, first_lines, reweigh, index, last_was_merged,
                 final_lines, uwline, initial_state, search_vars, result>>

\* The tokens of the lines below: a name, and a keyword or another token.
Name(value) ==
  [name |-> "NAME", value |-> value, is_name |-> TRUE, parameters |-> <<>>]
Op(name, value) ==
  [name |-> name, value |-> value, is_name |-> FALSE, parameters |-> <<>>]

\* `target = 1`
Assign(target) ==
  [tokens |-> target \o <<Op("EQUAL", "="), Op("NUMBER", "1")>>,
   in_expr_stmt |-> TRUE, is_func_definition |-> FALSE]

\* `def fn(a, b, ...):` of the parameter names
FuncDef(names) ==
  LET RECURSIVE List(_)
      List(k) == IF k > Len(names) THEN <<>>
                 ELSE (IF k > 1 THEN <<Op("COMMA", ",")>> ELSE <<>>)
                        \o <<Name(names[k])>> \o List(k + 1)
      lpar == [Op("LPAR", "(") EXCEPT
                 !.parameters = [k \in 1..Len(names) |->
                                   [first |-> 2 * k + 2, last |-> 2 * k + 2]]]
  IN  [tokens |-> <<Op("NAME", "def"), Name("fn"), lpar>> \o List(1)
                    \o <<Op("RPAR", ")"), Op("COLON", ":")>>,
       in_expr_stmt |-> FALSE, is_func_definition |-> TRUE]

\* The lines of yapftests/huawei/options/check_var_naming_style_test.py.
NamingLines ==
  {Assign(<<Name(v)>>) :
     v \in {"CONSTANT_VAR", "PascalCaseVar", "camelCaseVar", "snake_case_var",
            "__SpecialVar__"}}
  \cup {Assign(<<Name(o), Op("DOT", "."), Name(v)>>) :
          o \in {"self", "Object"}, v \in {"Value1", "snake_case"}}
  \cup {Assign(<<Name("_"), Op("COMMA", ","), Name("a")>>),
        Assign(<<Name("Func"), Op("LPAR", "("), Name("Arg"),
                 Op("RPAR", ")")>>),
        FuncDef(<<"first_arg", "secondArg", "ThirdArg">>),
        FuncDef(<<"ARG">>),
        [tokens |-> <<Op("NAME", "pass")>>, in_expr_stmt |-> FALSE,
         is_func_definition |-> FALSE]}

\* The names a config string gives a naming option.
StyleNames ==
  {"PascalCase", "camelCase", "snake_case", "unknown_name", "none",
   "SNAKE_CASE", "Pascal", "'snake-case'", "\"camelCase\"", "'none-x'",
   "snake-case", "none-x", "snake_case-x"}

\* The config strings `{based_on_style: b, option: name}` and
\* `{option: name}`.
ConfigStrings ==
  LET options == {"check_func_naming_style", "check_var_naming_style",
                  "CHECK_VAR_NAMING_STYLE", "check_naming_style"}
      items == {<<[key |-> o, text |-> n]>> : o \in options, n \in StyleNames}
  IN  items \cup {<<[key |-> "based_on_style", text |-> b]>> \o i :
                    b \in {"pep8", "huawei"}, i \in items}

\* A caller makes the style from a config string and has the lines of a
\* text checked: the text is one of a few under every config string, and
\* any of up to MaxLines lines under the config strings of the tests.
InitNaming ==
  /\ \/ /\ style_config \in ConfigStrings
        /\ uwlines \in {<<Assign(<<Name("camelCaseVar")>>)>>,
                        <<FuncDef(<<"first_arg", "secondArg", "ThirdArg">>)>>}
     \/ /\ style_config \in
             {c \in ConfigStrings :
                /\ c[Len(c)].key = "check_var_naming_style"
                /\ c[Len(c)].text \in {"snake_case", "PascalCase", "none"}}
        /\ uwlines \in UNION {[1..m -> NamingLines] : m \in 1..MaxLines}
  /\ style = StyleNameToFactory("pep8")
  /\ global_style_factory = "pep8"
  /\ messages = <<>>
  /\ checked = 0
  /\ lines = {}
  /\ verify = FALSE
  /\ runs = 1
  /\ run = 1
  /\ first_result = [status |-> "none", text |-> <<>>]
  /\ first_lines = <<>>
  /\ reweigh = SameWeights
  /\ index = 0
  /\ last_was_merged = FALSE
  /\ final_lines = <<>>
  /\ uwline = Line(<<>>, 0, FALSE)
  /\ initial_state = FormatDecisionState(uwline, 0)
  /\ p_queue = <<>>
  /\ seen = << >>
  /\ expanded = << >>
  /\ count = 0
  /\ ret = "none"
  /\ path = <<>>
  /\ pc = "config"
  /\ result = [status |-> "none", text |-> <<>>]

\* Get(setting_name) (lines 29-31)
Get(setting_name) == style[setting_name]

\* Set(setting_name, value) (lines 34-36), called between two calls of
\* CreateStyleFromConfig with the width of a line or with a naming style.
Set ==
  /\ pc \in {"check", "failed"}
  /\ \E setting_name \in {"COLUMN_LIMIT", "CHECK_VAR_NAMING_STYLE"} :
       LET value == IF setting_name = "COLUMN_LIMIT" THEN 100
                    ELSE "CAMELCASE"
       IN  /\ style[setting_name] # value
           /\ style' = [style EXCEPT ![setting_name] = value]
  /\ UNCHANGED <<style_config, messages, checked, global_style_factory,
                 uwlines, lines, verify, runs, run, first_result,
                 first_lines, reweigh, reformat_vars, uwline, initial_state,
                 search_vars, pc>>

\* SetGlobalStyle(style) (lines 44-51), called with a predefined style.
SetGlobalStyle ==
  /\ pc \in {"check", "failed"}
  /\ \E name \in {"pep8", "huawei"} :
       /\ style' = StyleNameToFactory(name)
       /\ style' # style
       /\ global_style_factory' = FactoryAfterSetGlobalStyle(style')
  /\ UNCHANGED <<style_config, messages, checked, uwlines, lines, verify,
                 runs, run, first_result, first_lines, reweigh,
                 reformat_vars, uwline, initial_state, search_vars, pc>>

\* The config strings of a sequence of calls: those of ConfigStrings that
\* name a style the tests name, and those with a second option after a
\* first one that is accepted.
SequenceConfigs ==
  LET Item(option, name) == [key |-> option, text |-> name]
      names == {"camelCase", "unknown_name", "none"}
      items == {<<Item(o, n)>> :
                  o \in {"check_var_naming_style", "check_naming_style"},
                  n \in names}
              \cup {<<Item("check_func_naming_style", "PascalCase"),
                      Item("check_var_naming_style", n)>> : n \in names}
  IN  items \cup {<<Item("based_on_style", "huawei")>> \o i : i \in items}
            \cup {<<Item("based_on_style", "huawei")>>}

\* The caller calls CreateStyleFromConfig once more.
CreateStyleFromConfigAgain ==
  /\ pc \in {"check", "failed"}
  /\ style_config' \in SequenceConfigs
  /\ result' = [status |-> "none", text |-> <<>>]
  /\ pc' = "config"
  /\ UNCHANGED <<messages, checked, style, global_style_factory, uwlines,
                 lines, verify, runs, run, first_result, first_lines,
                 reweigh, index, last_was_merged, final_lines, uwline,
                 initial_state, search_vars>>

\* What runs before Reformat.
NextNaming ==
  \/ CreateStyleFromConfig
  \/ CheckAllRecommendations

SpecNaming == InitNaming /\ [][NextNaming]_vars

\* A caller is about to call CreateStyleFromConfig for the first time, the
\* module just loaded (lines 950-971); no line is checked.
InitCalls ==
  /\ style_config \in SequenceConfigs
  /\ uwlines = <<>>
  /\ style = StyleNameToFactory("pep8")
  /\ global_style_factory = "pep8"
  /\ messages = <<>>
  /\ checked = 0
  /\ lines = {}
  /\ verify = FALSE
  /\ runs = 1
  /\ run = 1
  /\ first_result = [status |-> "none", text |-> <<>>]
  /\ first_lines = <<>>
  /\ reweigh = SameWeights
  /\ index = 0
  /\ last_was_merged = FALSE
  /\ final_lines = <<>>
  /\ uwline = Line(<<>>, 0, FALSE)
  /\ initial_state = FormatDecisionState(uwline, 0)
  /\ p_queue = <<>>
  /\ seen = << >>
  /\ expanded = << >>
  /\ count = 0
  /\ ret = "none"
  /\ path = <<>>
  /\ pc = "config"
  /\ result = [status |-> "none", text |-> <<>>]

\* The calls a caller makes to set the style, in any order.
NextCalls ==
  \/ CreateStyleFromConfig
  \/ CreateStyleFromConfigAgain
  \/ Set
  \/ SetGlobalStyle

SpecCalls == InitCalls /\ [][NextCalls]_vars

----------------------------------------------------------------------------
(* Properties of the search                                                 *)

\* The state Reformat hands to the search for a line (lines 59-61).
StartState(line) ==
  MoveStateToNextToken(line,
    FormatDecisionState(line, style.INDENT_WIDTH * line.depth))

\* The decisions _AddNextStateToQueue admits in a state.
Permitted(line, st) ==
  {newline \in BOOLEAN :
     /\ newline => CanSplit(line, st, MustSplit(line, st))
     /\ ~newline => ~MustSplit(line, st)}

RECURSIVE PathPenalty(_, _, _)
\* The total penalty of a sequence of permitted decisions taken from st, the
\* penalty of each edge being what AddTokenToState returns for it; -1 when
\* a decision is not permitted.
PathPenalty(line, st, flags) ==
  IF flags = <<>> THEN 0
  ELSE IF ~HasNextToken(line, st) \/ Head(flags) \notin Permitted(line, st)
    THEN -1
  ELSE LET r == AddTokenToState(line, st, Head(flags), TRUE,
                                MustSplit(line, st))
           rest == PathPenalty(line, r.state, Tail(flags))
       IN IF rest < 0 THEN -1 ELSE r.penalty + rest

RECURSIVE MinPenalty(_, _)
\* The least total penalty of the sequences of permitted decisions that lead
\* from st to a terminal state; -1 when there is none.
MinPenalty(line, st) ==
  IF ~HasNextToken(line, st) THEN 0
  ELSE
    LET totals ==
          {t \in {LET r == AddTokenToState(line, st, newline, TRUE,
                                           MustSplit(line, st))
                      m == MinPenalty(line, r.state)
                  IN IF m < 0 THEN -1 ELSE r.penalty + m :
                  newline \in Permitted(line, st)} : t >= 0}
    IN IF totals = {} THEN -1
       ELSE CHOOSE t \in totals : \A u \in totals : t <= u

\* The search has just returned True for uwline, committing `path`.
SearchSucceeded == pc = "returned" /\ ret = "True"

\* The committed decisions lead to a terminal state and no permitted
\* sequence that does has a lower total penalty.
CommittedPathIsOptimal ==
  /\ Len(path) = NumTokens(uwline) - 1
  /\ PathPenalty(uwline, StartState(uwline), path)
       = MinPenalty(uwline, StartState(uwline))

----------------------------------------------------------------------------
(* Properties of the failsafe                                               *)

\* The layout of `emitted` is the original one of `line`: every token after
\* the first is as many physical lines below the token before it as in the
\* source, and is preceded by the blanks that precede it in the source (for
\* a token that starts a physical line, its indentation relative to the
\* first token's).  The tokens here span one physical line each.
RetainedLayout(line, emitted) ==
  /\ NumTokens(emitted) = NumTokens(line)
  /\ \A i \in 2..NumTokens(line) :
       LET t == line.tokens[i]
           p == line.tokens[i - 1]
           e == emitted.tokens[i]
       IN /\ e.value = t.value
          /\ e.newlines = t.lineno - p.lineno
          /\ e.spaces = IF t.lineno = p.lineno
                          THEN t.column - (p.column + TokLen(p))
                          ELSE t.column - First(line).column
                               + line.depth * style.INDENT_WIDTH

\* The first token of `emitted` is as many physical lines below the last
\* token of the line before it as in the source.
RetainedLineGap(line, emitted, fl) ==
  fl # <<>> =>
    First(emitted).newlines = First(line).lineno - Last(fl[Len(fl)]).lineno

\* The tokens of a list of lines that come from the source.
SourceTokenCount(lns) ==
  Cardinality({i \in 1..Len(FlatTokens(lns)) :
                 FlatTokens(lns)[i].kind # "semi"})

\* C2: _AnalyzeSolutionSpace returns False exactly when the frontier is
\* empty at the end of its loop (no terminal state was at its head); then
\* Reformat raises nothing, emits the line from a fresh decision state with
\* its original horizontal and vertical spacing, appends it to the final
\* lines and goes on with the lines that follow, all of which are in the
\* final lines when Reformat is done.
C2_FailsafeOnSearchFailure ==
  /\ [][pc = "after" => (ret' = "False" <=> p_queue = <<>>)]_vars
  /\ [][pc = "returned" /\ ret = "False" =>
         /\ RetainedLayout(uwline, uwline')
         /\ RetainedLineGap(uwline, uwline', final_lines)
         /\ initial_state'.next = NumTokens(uwline) + 1
         /\ final_lines' = Append(final_lines, uwline')
         /\ result'.status = "none"
         /\ pc' = "next"
         /\ index' = index]_vars
  /\ [](pc = "done" =>
         /\ index = Len(uwlines)
         /\ SourceTokenCount(final_lines) = SourceTokenCount(uwlines))

\* Reformat is done, having appended a second line after a first one whose
\* search failed.
C2_Witness ==
  /\ pc = "done"
  /\ ret = "False"
  /\ result.status = "returned"
  /\ Len(final_lines) = 2
  /\ \E i \in 2..NumTokens(final_lines[1]) :
       final_lines[1].tokens[i].must_split
       /\ ~final_lines[1].tokens[i].can_split
  /\ \A i \in 2..NumTokens(final_lines[2]) :
       ~final_lines[2].tokens[i].must_split

----------------------------------------------------------------------------
(* Properties of the layout of a line                                       *)

\* Reformat emits the line as it is in the source (lines 76-85).
EmittedVerbatim(line) ==
  \/ line.disable
  \/ LineHasContinuationMarkers(line)
  \/ LineContainsPylintDisableLineTooLong(line)
  \/ LineContainsI18n(line)

\* Reformat places the line on one physical line (lines 87-91).
OnFastPath(line) ==
  /\ ~EmittedVerbatim(line)
  /\ CanPlaceOnSingleLine(line)
  /\ \A i \in 1..NumTokens(line) : ~line.tokens[i].must_split

\* Reformat calls _AnalyzeSolutionSpace for the line (lines 93-94).
Searched(line) == ~EmittedVerbatim(line) /\ ~OnFastPath(line)

\* The line appended last to final_lines.
LastLine == final_lines[Len(final_lines)]

\* The column at which token i of an emitted line ends: the width of its
\* physical line up to it.
EndColumn(line, i) ==
  LET End[k \in 1..i] ==
        (IF k = 1 \/ line.tokens[k].newlines > 0 THEN 0 ELSE End[k - 1])
        + line.tokens[k].spaces + TokLen(line.tokens[k])
  IN End[i]

\* Every physical line of the emitted line is within the column limit, a
\* trailing pylint or pytype comment not counted when counted is TRUE.
WithinColumnLimit(line, all) ==
  \A i \in 1..NumTokens(line) :
    \/ EndColumn(line, i) <= style.COLUMN_LIMIT
    \/ /\ ~all
       /\ i = NumTokens(line)
       /\ IsPylintComment(line.tokens[i]) \/ IsPytypeComment(line.tokens[i])

RECURSIVE MinFittingPenalty(_, _)
\* The least total penalty of the sequences of permitted decisions from st
\* to a terminal state that keep every token within the column limit; -1
\* when there is none.
MinFittingPenalty(line, st) ==
  IF st.column > style.COLUMN_LIMIT THEN -1
  ELSE IF ~HasNextToken(line, st) THEN 0
  ELSE
    LET totals ==
          {t \in {LET r == AddTokenToState(line, st, newline, TRUE,
                                           MustSplit(line, st))
                      m == MinFittingPenalty(line, r.state)
                  IN IF m < 0 THEN -1 ELSE r.penalty + m :
                  newline \in Permitted(line, st)} : t >= 0}
    IN IF totals = {} THEN -1
       ELSE CHOOSE t \in totals : \A u \in totals : t <= u

\* The least penalty at which the line fits, -1 when it cannot fit.
FittingPenalty(line) == MinFittingPenalty(line, StartState(line))

\* Some sequence of permitted splits keeps the line within the limit.
CanFit(line) == FittingPenalty(line) >= 0

\* The step appends a line to final_lines: the end of an iteration.
AppendsLine == Len(final_lines') = Len(final_lines) + 1

\* The line of the iteration that ends, as the generator yields it.
TakenUp ==
  IF pc = "returned" THEN uwline
  ELSE SingleOrMergedLines(uwlines, index, last_was_merged).uwline

\* A line with a permitted layout never makes the search fail.
SearchFindsPermittedLayout ==
  pc = "returned" /\ MinPenalty(uwline, StartState(uwline)) >= 0
    => ret = "True"

\* C3 as stated: every line that some sequence of permitted splits keeps
\* within the column limit is emitted with every physical line within the
\* limit; a line that cannot fit is emitted all the same, the search
\* succeeding on it.
C3_WithinLimitWhenFeasible ==
  /\ [][AppendsLine /\ CanFit(TakenUp)
         => WithinColumnLimit(final_lines'[Len(final_lines')], TRUE)]_vars
  /\ []SearchFindsPermittedLayout

\* C3, amended: every line that Reformat lays out itself (it is not emitted
\* verbatim as a disabled, continuation, pylint line-too-long or i18n line)
\* and that some sequence of permitted splits keeps within the column limit at a
\* total penalty below SPLIT_PENALTY_EXCESS_CHARACTER, is emitted with every
\* physical line within the limit, a trailing pylint or pytype comment not
\* counted; a line that cannot fit is emitted all the same, the search
\* succeeding on it.
C3_WithinLimitWhenCheaper ==
  /\ [][( /\ AppendsLine
          /\ ~EmittedVerbatim(TakenUp)
          /\ FittingPenalty(TakenUp)
               \in 0..(style.SPLIT_PENALTY_EXCESS_CHARACTER - 1) )
        => WithinColumnLimit(final_lines'[Len(final_lines')], FALSE)]_vars
  /\ []SearchFindsPermittedLayout

\* The search has split a line that is too wide for one physical line.
C3_Witness ==
  /\ pc = "next" /\ final_lines # <<>>
  /\ Searched(LastLine)
  /\ ret = "True"
  /\ Last(LastLine).total_length > style.COLUMN_LIMIT
  /\ FittingPenalty(LastLine)
       \in 0..(style.SPLIT_PENALTY_EXCESS_CHARACTER - 1)
  /\ \E i \in 2..NumTokens(LastLine) : LastLine.tokens[i].newlines > 0

\* No token after the first starts a physical line.
NoInternalLineBreak(line) ==
  \A i \in 2..NumTokens(line) : line.tokens[i].newlines = 0

\* C4 as stated: every line for which _CanPlaceOnSingleLine is true and no
\* token of which has must_split is emitted with no internal line break.
C4_FittingLineUnbroken ==
  \A k \in 1..Len(final_lines) :
    /\ CanPlaceOnSingleLine(final_lines[k])
    /\ \A i \in 1..NumTokens(final_lines[k]) :
         ~final_lines[k].tokens[i].must_split
    => NoInternalLineBreak(final_lines[k])

\* C4, amended: every line for which _CanPlaceOnSingleLine is true and no
\* token of which has must_split, and which is not disabled and has no
\* continuation marker, no pylint line-too-long comment and no i18n
\* content, is emitted with no internal line break, whatever its other
\* split hints are.
C4_FittingFormattedLineUnbroken ==
  \A k \in 1..Len(final_lines) :
    /\ CanPlaceOnSingleLine(final_lines[k])
    /\ \A i \in 1..NumTokens(final_lines[k]) :
         ~final_lines[k].tokens[i].must_split
    /\ ~EmittedVerbatim(final_lines[k])
    => NoInternalLineBreak(final_lines[k])

\* A line on the fast path that is broken in the source and has a token
\* before which a split is allowed.
C4_Witness ==
  \E k \in 1..Len(final_lines) :
    /\ OnFastPath(final_lines[k])
    /\ \E i \in 2..NumTokens(final_lines[k]) :
         /\ final_lines[k].tokens[i].can_split
         /\ final_lines[k].tokens[i].lineno
              > final_lines[k].tokens[i - 1].lineno

----------------------------------------------------------------------------
(* Properties of the lines emitted as they are in the source                *)

\* The column at which token i of an emitted line starts.
StartColumn(line, i) == EndColumn(line, i) - TokLen(line.tokens[i])

\* The tokens of the source: the separators the generator adds are not.
FromSource(tok) == tok.kind # "semi"

\* Every token of the emitted line that comes from the source starts at
\* the column it has in the source.
KeepsHorizontalSpacing(line) ==
  \A i \in 1..NumTokens(line) :
    FromSource(line.tokens[i]) => StartColumn(line, i) = line.tokens[i].column

\* The tokens of the emitted line are in the order of the source.
KeepsTokenOrder(line) ==
  \A i, j \in 1..NumTokens(line) :
    i < j /\ FromSource(line.tokens[i]) /\ FromSource(line.tokens[j])
      => \/ line.tokens[i].lineno < line.tokens[j].lineno
         \/ /\ line.tokens[i].lineno = line.tokens[j].lineno
            /\ line.tokens[i].column < line.tokens[j].column

\* Neither source line is in the range that may be edited.
OutsideEditRange(cur_lineno, prev_lineno) ==
  lines = {} \/ (cur_lineno \notin lines /\ prev_lineno \notin lines)

\* Between two tokens outside the edit range, the emitted line k has the
\* newlines of the source; the token before its first token is the last
\* token of the line emitted before it.
KeepsVerticalSpacing(k) ==
  LET line == final_lines[k]
  IN \A i \in 1..NumTokens(line) :
       LET cur == line.tokens[i]
           has_prev == i > 1 \/ k > 1
           prev == IF i > 1 THEN line.tokens[i - 1]
                   ELSE Last(final_lines[k - 1])
       IN has_prev /\ FromSource(cur) /\ FromSource(prev)
            /\ OutsideEditRange(cur.lineno, prev.lineno)
            => cur.newlines = cur.lineno - prev.lineno

\* C5: every line that is disabled or has a continuation marker is emitted
\* with every token at its column of the source and in the order of the
\* source; only the number of newlines before a token may differ from the
\* source, and only when the token or the one before it is on a line of the
\* edit range.
C5_VerbatimLinesKeepSpacing ==
  \A k \in 1..Len(final_lines) :
    final_lines[k].disable \/ LineHasContinuationMarkers(final_lines[k])
      => /\ KeepsHorizontalSpacing(final_lines[k])
         /\ KeepsTokenOrder(final_lines[k])
         /\ KeepsVerticalSpacing(k)

----------------------------------------------------------------------------
(* Properties of the alignment of trailing comments                         *)

RECURSIVE AlignedBlocks(_, _)
\* The blocks that _AlignTrailingComments finds in fl from final_lines_index
\* (0-based) on: the lines of each, the columns of the comment it starts
\* at, and the length of its longest pre-comment content.
AlignedBlocks(fl, final_lines_index) ==
  IF final_lines_index >= Len(fl) THEN {}
  ELSE
    LET line == fl[final_lines_index + 1]
        trig == {i \in 1..NumTokens(line) :
                   StartsAlignedBlock(line.tokens[i])}
    IN IF trig = {} THEN AlignedBlocks(fl, final_lines_index + 1)
       ELSE
         LET tok == line.tokens[CHOOSE i \in trig : \A j \in trig : i <= j]
             b   == ScanBlock(fl, final_lines_index, <<>>, 0)
             n   == Len(b.all_pc_line_lengths)
         IN {[first |-> final_lines_index + 1,
              last |-> final_lines_index + n,
              columns |-> tok.columns,
              longest |-> b.max_line_length]}
            \cup AlignedBlocks(fl, final_lines_index + n)

\* The column at which comment i of an emitted line starts, the first
\* character of a physical line being at column 1.
CommentColumn(line, i) ==
  (IF i = 1 \/ line.tokens[i].newlines > 0 THEN 0
   ELSE EndColumn(line, i - 1))
  + line.tokens[i].spaces + LeadingBlanks(line.tokens[i].value) + 1

\* The step is the alignment pass and the composition of the text.
ComposesText == pc = "next" /\ pc' = "done"

\* After the step, every comment of every block starts at the column that
\* Col gives for the columns and the longest pre-comment content of its
\* block.
CommentsStartAt(Col(_, _)) ==
  \A b \in AlignedBlocks(final_lines, 0) :
    \A k \in b.first..b.last :
      ~final_lines'[k].disable
        => \A i \in 1..NumTokens(final_lines'[k]) :
             IsComment(final_lines'[k].tokens[i])
               => CommentColumn(final_lines'[k], i)
                    = Col(b.columns, b.longest)

\* The first configured column greater than M, and M + 2 when none is.
FirstColumnGreater(columns, M) ==
  LET greater == {i \in 1..Len(columns) : columns[i] > M}
  IN IF greater = {} THEN M + 2
     ELSE columns[CHOOSE i \in greater : \A j \in greater : i <= j]

\* C8: the comments of every block are aligned to the first configured
\* column that is strictly greater than the maximum pre-comment content
\* length M of the block, and to M + 2 when no configured column is.
C8_FirstColumnGreaterThanLongest ==
  [][ComposesText => CommentsStartAt(FirstColumnGreater)]_vars

\* The column of the scenario with the columns [c1, c2]: c1 whenever
\* L + 2 <= c1, and c2 otherwise.
ScenarioColumn(columns, L) ==
  IF L + 2 <= columns[1] THEN columns[1] ELSE columns[2]

\* The column with the columns [c1, c2]: c1 when L + 2 < c1, c2 when
\* c1 <= L + 2 < c2, and L + 2 otherwise.
ScenarioColumnStrict(columns, L) ==
  IF L + 2 < columns[1] THEN columns[1]
  ELSE IF L + 2 < columns[2] THEN columns[2]
  ELSE L + 2

----------------------------------------------------------------------------
(* Properties of the composed text                                          *)

\* Reformat has returned a text.
Returned == pc = "done" /\ result.status = "returned"

\* C6: for every list of logical lines, the empty one included, the text
\* that Reformat returns ends with exactly one newline character.
C6_EndsWithOneNewline ==
  Returned
    => LET n == Len(result.text)
       IN /\ n >= 1
          /\ result.text[n] = "\n"
          /\ n >= 2 => result.text[n - 1] # "\n"

\* A returned text of two logical lines, the last token of which is a
\* comment.
C6_Witness ==
  /\ Returned
  /\ Len(final_lines) = MaxLines
  /\ IsComment(Last(final_lines[Len(final_lines)]))
  /\ Len(result.text) > 2

\* The text of the final lines, composed whether or not it is verified.
ComposedText ==
  Concat([k \in 1..Len(final_lines) |-> LineText(final_lines[k])])
    \o <<"\n">>

C10_Idempotent ==
  Returned /\ run > 1 => result.text = first_result.text

----------------------------------------------------------------------------
(* Properties of two runs under configurations that differ in one weight   *)

\* The second run, under the raised weight, has ended; first_lines holds
\* the lines of the run under the lower weight.
BothRunsEnded == pc = "done" /\ run = 2 /\ reweigh.by > 0

\* The tokens of an emitted line that the weight `change` names charges: a
\* line break before a token of the category, or, for the weight of each
\* added line split, before a token that does not have to be split.
ChargedSplits(line, change) ==
  {i \in 2..NumTokens(line) :
     /\ line.tokens[i].newlines > 0
     /\ IF change.weight = "category"
          THEN line.tokens[i].kind = change.kind
          ELSE ~line.tokens[i].must_split}

RECURSIVE AddedSplitUnits(_, _)
\* How many times SPLIT_PENALTY_FOR_ADDED_LINE_SPLIT is charged along the
\* decisions recorded on an emitted line, from state st on: the k-th added
\* split between a pair of brackets is charged k times the weight.
AddedSplitUnits(line, st) ==
  IF ~HasNextToken(line, st) THEN 0
  ELSE LET tok == line.tokens[st.next]
           newline == tok.newlines > 0
           r == AddTokenToState(line, st, newline, TRUE, tok.must_split)
       IN (IF newline /\ ~tok.must_split
             THEN Top(st.stack).num_line_splits + 1 ELSE 0)
          + AddedSplitUnits(line, r.state)

\* How many times an emitted line is charged the weight `change` names.
ChargedUnits(line, change) ==
  IF change.weight = "category"
    THEN Cardinality(ChargedSplits(line, change))
    ELSE AddedSplitUnits(line, StartState(line))

\* C11 as stated: for two configurations that differ only in one
\* split-penalty weight and the same logical line, the layout chosen under
\* the higher weight has no more splits of that weight's category than the
\* layout chosen under the lower weight.
C11_NoMoreSplitsUnderHigherWeight ==
  BothRunsEnded
    => \A k \in 1..Len(final_lines) :
         Cardinality(ChargedSplits(final_lines[k], reweigh))
           <= Cardinality(ChargedSplits(first_lines[k], reweigh))

\* C11, amended: for two configurations that differ only in one
\* split-penalty weight and the same logical line, the layout chosen under
\* the higher weight is charged that weight no more often than the layout
\* chosen under the lower weight: once per split of the category for the
\* weight of a syntactic category, and k times for the k-th added split
\* between a pair of brackets for SPLIT_PENALTY_FOR_ADDED_LINE_SPLIT.
C11_ChargedNoMoreUnderHigherWeight ==
  BothRunsEnded
    => /\ Len(final_lines) = Len(first_lines)
       /\ \A k \in 1..Len(final_lines) :
            ChargedUnits(final_lines[k], reweigh)
              <= ChargedUnits(first_lines[k], reweigh)

\* Two runs that differ in the weight of each added line split, where the
\* search laid out a line under both weights and the higher weight made it
\* choose a layout that is charged less often.
C11_Witness ==
  /\ BothRunsEnded
  /\ reweigh.weight = "SPLIT_PENALTY_FOR_ADDED_LINE_SPLIT"
  /\ \E k \in 1..Len(final_lines) :
       /\ ~final_lines[k].tokens[NumTokens(final_lines[k])].retained
       /\ ChargedSplits(final_lines[k], reweigh) # {}
       /\ ChargedUnits(final_lines[k], reweigh)
            < ChargedUnits(first_lines[k], reweigh)

----------------------------------------------------------------------------
(* Properties of the search on contradictory hints                          *)

\* The next token of st must be split before and cannot be split before.
Contradictory(line, st) ==
  /\ HasNextToken(line, st)
  /\ MustSplit(line, st)
  /\ ~CanSplit(line, st, MustSplit(line, st))

\* The search of uwline has ended, having expanded a contradictory state.
ContradictionReached ==
  /\ pc \in {"after", "returned"}
  /\ \E st \in SeenStates(seen) : Contradictory(uwline, st)

----------------------------------------------------------------------------
(* Properties of a column limit of 0                                        *)

\* Token i of an emitted line starts a physical line that it did not start
\* in the source.
BreakInserted(line, i) ==
  /\ line.tokens[i].newlines > 0
  /\ FromSource(line.tokens[i])
  /\ FromSource(line.tokens[i - 1])
  /\ line.tokens[i].lineno = line.tokens[i - 1].lineno

\* The emitted line holds tokens of two logical lines that the source has
\* on different physical lines.
LinesMerged(line) ==
  \E i \in 2..NumTokens(line) :
    /\ line.tokens[i].newlines = 0
    /\ line.tokens[i].lineno # line.tokens[i - 1].lineno
    /\ \E k \in 1..Len(uwlines) : First(uwlines[k]).lineno = line.tokens[i].lineno
                                   /\ First(uwlines[k]).column = line.tokens[i].column

\* C13: when COLUMN_LIMIT is 0, Reformat never inserts a line break inside
\* a logical line and never merges two logical lines.
C13_ZeroLimitNeverSplitsOrMerges ==
  style.COLUMN_LIMIT = 0 /\ run = 1
    => \A k \in 1..Len(final_lines) :
         /\ ~LinesMerged(final_lines[k])
         /\ \A i \in 2..NumTokens(final_lines[k]) :
              ~BreakInserted(final_lines[k], i)

----------------------------------------------------------------------------
(* Properties of _RetainRequiredVerticalSpacingBetweenTokens                *)

\* The step ends an iteration in which Reformat gave the first token of the
\* line and the last token of the line before it, with its argument
\* `lines`, to _RetainRequiredVerticalSpacingBetweenTokens (lines 70-71, 78
\* and 84).
RetainsSpacingBeforeLine ==
  /\ AppendsLine
  /\ pc = "next"
  /\ final_lines # <<>>
  /\ EmittedVerbatim(TakenUp) \/ LastLine.disable

\* The newlines that the formatter asks for before the first token of the
\* line: the whitespace prefix when the function is called.
DesiredNewlines ==
  FormatFirstToken(First(TakenUp), TakenUp.depth, final_lines).tok.newlines

\* The blank lines between the two tokens that are in the edit range.
DeletableLines(cur, prev) == lines \cap ((prev.lineno + 1)..(cur.lineno - 1))

\* C14: with a previous token present, the newline count that
\* _RetainRequiredVerticalSpacingBetweenTokens sets before the current token
\* is the original line-number difference of the two tokens when no edit
\* range is given or neither token's line is in it; when one of the lines is
\* in the edit range, the blank lines between them that are in the range
\* are deletable: where there are such lines and the formatter asks for
\* fewer newlines than the difference, the count set is lower than it.
C14_SpacingExactOutsideLowerInside ==
  [][RetainsSpacingBeforeLine =>
       LET cur  == First(final_lines'[Len(final_lines')])
           prev == Last(final_lines'[Len(final_lines') - 1])
           difference == cur.lineno - prev.lineno
       IN /\ OutsideEditRange(cur.lineno, prev.lineno)
               => cur.newlines = difference
          /\ ( /\ ~OutsideEditRange(cur.lineno, prev.lineno)
               /\ ~(IsComment(cur) /\ ~IsComment(prev))
               /\ DeletableLines(cur, prev) # {}
               /\ DesiredNewlines < difference )
               => cur.newlines < difference]_vars

----------------------------------------------------------------------------
(* Properties of the lines excluded from reflow                             *)

\* C15: every logical line excluded from reflow (disabled, with a
\* continuation marker, with a pylint line-too-long comment, or with an
\* i18n comment or function call) is emitted with every token at the
\* column it has in the source.
C15_ExcludedLinesKeepHorizontalSpacing ==
  \A k \in 1..Len(final_lines) :
    run = 1 /\ EmittedVerbatim(final_lines[k])
      => KeepsHorizontalSpacing(final_lines[k])

----------------------------------------------------------------------------
(* Properties of the style made from a config string                       *)

\* The item of the config string that sets an option, the option it names
\* and the style the config string is based on.
NamingItem == style_config[Len(style_config)]

NamedOption == Recase(NamingItem.key, Lowercase, Uppercase)

BasedOn == IF Len(style_config) = 2 THEN style_config[1].text ELSE "pep8"

\* CreateStyleFromConfig has returned a style that is the style of
\* based_on_style but for the named option, which is `value`.
YieldsStyleWith(value) ==
  /\ pc \in {"check", "checked"}
  /\ style = [StyleNameToFactory(BasedOn) EXCEPT ![NamedOption] = value]

\* CreateStyleFromConfig has raised StyleConfigError, and the global style
\* is as it was.
RaisedStyleConfigError ==
  /\ pc = "failed"
  /\ result.status = "StyleConfigError"
  /\ style = StyleNameToFactory("pep8")

\* The name is outside the accepted set: without its quotes, underscores
\* and hyphens and in upper case it is none of the accepted styles.
OutsideAcceptedSet(name) ==
  Recase(Without(Without(StripChars(name, "\"'"), "_"), "-"),
         Lowercase, Uppercase)
    \notin {"PASCALCASE", "CAMELCASE", "SNAKECASE", "NONE"}

\* The name is made of letters, digits and underscores only, or is such a
\* name, or one with hyphens too, in quotes.
QuotedOrWord(name) ==
  LET At(k) == SubSeq(name, k, k)
      Word == Lowercase \o Uppercase \o Digits \o "_"
  IN  \/ /\ Len(name) >= 2
         /\ OneOf(At(1), "\"'")
         /\ At(Len(name)) = At(1)
         /\ \A k \in 2..(Len(name) - 1) : OneOf(At(k), Word \o "-")
      \/ \A k \in 1..Len(name) : OneOf(At(k), Word)

\* The three spellings of the claim yield their styles.
YieldsNamedStyle ==
  /\ NamingItem.text = "PascalCase" => YieldsStyleWith("PASCALCASE")
  /\ NamingItem.text = "camelCase" => YieldsStyleWith("CAMELCASE")
  /\ NamingItem.text = "snake_case" => YieldsStyleWith("SNAKECASE")

\* CreateStyleFromConfig has been called with a config string that sets
\* check_func_naming_style or check_var_naming_style.
NamingOptionSet ==
  /\ pc \in {"check", "checked", "failed"}
  /\ NamedOption \in {"CHECK_FUNC_NAMING_STYLE", "CHECK_VAR_NAMING_STYLE"}

\* C16 as stated: with a config string that sets check_func_naming_style or
\* check_var_naming_style to PascalCase, camelCase or snake_case,
\* CreateStyleFromConfig yields the style of based_on_style with that
\* option PASCALCASE, CAMELCASE or SNAKECASE; with any name outside the
\* accepted set it raises StyleConfigError.
C16_UnknownNamesRaise ==
  NamingOptionSet =>
    /\ YieldsNamedStyle
    /\ OutsideAcceptedSet(NamingItem.text) => RaisedStyleConfigError

\* C16, amended: the same, the names that raise being those outside the
\* accepted set that are made of letters, digits and underscores only, or
\* of these and hyphens in quotes; of another unquoted name the config
\* string's pattern reads the leading letters, digits and underscores,
\* which may be an accepted style.
C16_UnknownWordsRaise ==
  NamingOptionSet =>
    /\ YieldsNamedStyle
    /\ (OutsideAcceptedSet(NamingItem.text) /\ QuotedOrWord(NamingItem.text)
          => RaisedStyleConfigError)

\* A config string based on huawei has set check_var_naming_style, which
\* huawei has as SNAKECASE, to PascalCase.
C16_Witness ==
  /\ pc = "check"
  /\ BasedOn = "huawei"
  /\ NamingItem = [key |-> "check_var_naming_style", text |-> "PascalCase"]
  /\ style.CHECK_VAR_NAMING_STYLE = "PASCALCASE"
  /\ style.CHECK_FUNC_NAMING_STYLE = "SNAKECASE"

----------------------------------------------------------------------------
(* Properties of the naming recommendations                                *)

\* The VAR_NAMING_STYLE warnings recorded for the token at place i of line
\* number n.
WarningCount(n, i) ==
  Cardinality({m \in 1..Len(messages) :
                 messages[m].line = n /\ messages[m].tok = i})

\* The token at place i of the line is inside a call on the left-hand side
\* of an assignment, or is the name called there.
InsideCallOnLhs(line, i) ==
  LET toks == line.tokens
  IN  /\ line.in_expr_stmt
      /\ \A j \in 1..i : toks[j].name # "EQUAL"
      /\ \/ i < Len(toks) /\ toks[i + 1].name = "LPAR"
         \/ \E o \in 1..(i - 1) :
              /\ toks[o].name = "LPAR"
              /\ \A j \in o..i : toks[j].name # "RPAR"

\* The token at place i of the line is an attribute of an object other
\* than self.
AttributeOfOther(line, i) ==
  /\ i > 2
  /\ line.tokens[i - 1].name = "DOT"
  /\ line.tokens[i - 2].value # "self"

\* The token at place i of the line is an assigned variable name (a name or
\* an attribute of self left of the `=`) or a function parameter name.
AssignedOrParameter(line, i) ==
  LET toks == line.tokens
  IN  /\ toks[i].name = "NAME"
      /\ \/ /\ line.in_expr_stmt
            /\ \A j \in 1..i : toks[j].name # "EQUAL"
            /\ ~InsideCallOnLhs(line, i)
            /\ ~AttributeOfOther(line, i)
            /\ i < Len(toks) => toks[i + 1].name # "DOT"
         \/ /\ line.is_func_definition
            /\ \E o \in 1..Len(toks) : \E p \in 1..Len(toks[o].parameters) :
                 toks[o].parameters[p].first = i

\* The name needs no warning under the style: it matches it, or is all in
\* upper case, or is self, a dunder name or the placeholder.
NeedsNoWarning(naming_style_name, value) ==
  \/ VarnameMatch(naming_style_name, value)
  \/ IsUpper(value)
  \/ value = "self"
  \/ Len(value) >= 4 /\ SubSeq(value, 1, 2) = "__"
       /\ SubSeq(value, Len(value) - 1, Len(value)) = "__"
  \/ value = "_"

\* C17: with CHECK_VAR_NAMING_STYLE set to snake_case, when the lines have
\* been checked there is exactly one VAR_NAMING_STYLE warning for each
\* assigned variable name or function parameter name that does not match
\* the style, and none for a name that matches it, is all in upper case, is
\* self, a dunder name or the placeholder `_`, is inside a call on the
\* left-hand side, or is an attribute of an object other than self.
C17_OneWarningPerMismatch ==
  /\ pc = "checked"
  /\ NamingItem = [key |-> "check_var_naming_style", text |-> "snake_case"]
  => \A n \in 1..Len(uwlines) : \A i \in 1..Len(uwlines[n].tokens) :
       LET line == uwlines[n]
           value == line.tokens[i].value
       IN  /\ (AssignedOrParameter(line, i)
                 /\ ~NeedsNoWarning("SNAKECASE", value))
               => WarningCount(n, i) = 1
           /\ (\/ NeedsNoWarning("SNAKECASE", value)
               \/ InsideCallOnLhs(line, i)
               \/ AttributeOfOther(line, i))
               => WarningCount(n, i) = 0

----------------------------------------------------------------------------
(* Properties of the edges of the search                                   *)

RECURSIVE EdgesPermitted(_, _, _)
\* Every edge of the chain `flags`, taken from the state st on, was taken
\* from a state that permits it: a 'no newline' edge from a state whose
\* MustSplit() is false, a 'newline' edge from a state whose
\* CanSplit(must_split) is true.
EdgesPermitted(line, st, flags) ==
  \/ flags = <<>>
  \/ LET must_split == MustSplit(line, st)
         newline == Head(flags)
         r == AddTokenToState(line, st, newline, TRUE, must_split)
     IN  /\ newline => CanSplit(line, st, must_split)
         /\ ~newline => ~must_split
         /\ EdgesPermitted(line, r.state, Tail(flags))

RECURSIVE EdgesRefused(_, _, _, _)
\* The states along the chain `flags`, from st on, at which the other edge
\* was refused: the 'no newline' edge by MustSplit() for kind "must", the
\* 'newline' edge by CanSplit(must_split) for kind "cannot".
EdgesRefused(line, st, flags, kind) ==
  IF flags = <<>> THEN 0
  ELSE LET must_split == MustSplit(line, st)
           r == AddTokenToState(line, st, Head(flags), TRUE, must_split)
           refused == IF kind = "must" THEN must_split
                      ELSE ~CanSplit(line, st, must_split)
       IN  (IF refused THEN 1 ELSE 0)
             + EdgesRefused(line, r.state, Tail(flags), kind)

\* C18: while _AnalyzeSolutionSpace runs, the parent chain of every node on
\* the frontier, the winning node at its head when the loop has ended
\* included, has no 'no newline' edge from a state whose MustSplit() is
\* true and no 'newline' edge from a state whose CanSplit(must_split) is
\* false.
C18_NoRefusedEdgeOnAnyChain ==
  pc \in {"loop", "after"} =>
    \A k \in 1..Len(p_queue) :
      EdgesPermitted(uwline, initial_state, PathOf(p_queue[k].state_node))

\* The loop has ended with a winning node whose chain passes a state that
\* must be split and a state that cannot be split.
C18_Witness ==
  /\ pc = "after"
  /\ p_queue # <<>>
  /\ LET flags == PathOf(Head(p_queue).state_node)
     IN  /\ EdgesRefused(uwline, initial_state, flags, "must") > 0
         /\ EdgesRefused(uwline, initial_state, flags, "cannot") > 0

----------------------------------------------------------------------------
(* Properties of the search's effects                                      *)

\* The step leaves the tokens of the line and initial_state as they are.
KeepsLineAndState == uwline' = uwline /\ initial_state' = initial_state

\* The head of the frontier is a terminal node: its state has no next token.
TerminalFound ==
  p_queue # <<>> /\ ~HasNextToken(uwline, Head(p_queue).state_node.state)

\* C19: while _AnalyzeSolutionSpace explores (it starts, and runs its loop)
\* no step changes the whitespace of the tokens of the line or
\* initial_state, and none does when the search fails; they change only in
\* the step that returns, a terminal node found, and then to what
\* _ReconstructPath makes of them by replaying the path of that node.
C19_ExplorationIsDryRun ==
  [][ /\ pc \in {"search", "loop"} => KeepsLineAndState
      /\ pc = "after" /\ ~TerminalFound => KeepsLineAndState /\ ret' = "False"
      /\ pc = "after" /\ TerminalFound =>
           LET r == ReconstructPath(uwline, initial_state,
                                    Head(p_queue).state_node)
           IN  uwline' = r.line /\ initial_state' = r.state ]_vars

\* The search has returned a path with a line break after exploring and
\* queueing states: the replay has committed whitespace to the tokens.
C19_Witness ==
  /\ pc = "returned"
  /\ ret = "True"
  /\ count > 2
  /\ \E k \in 1..Len(path) : path[k]
  /\ \E i \in 1..NumTokens(uwline) : uwline.tokens[i].newlines > 0 /\ i > 1

----------------------------------------------------------------------------
(* Properties of the order of the frontier                                 *)

\* Item a is taken before item b: its (penalty, count) is the smaller.
TakenBefore(a, b) ==
  \/ a.penalty < b.penalty
  \/ a.penalty = b.penalty /\ a.count < b.count

\* The frontier while _AnalyzeSolutionSpace runs: the insertion counts of
\* its entries are unique and below the counter; the entry that heappop
\* takes next is before every other in (penalty, count), and so are the
\* entries in the order in which they would be taken; and of the two
\* successors of a node the 'no newline' one has the smaller count.
FrontierOrdered ==
  pc \in {"loop", "after"} =>
    \A i, j \in 1..Len(p_queue) :
      /\ p_queue[i].count < count
      /\ i # j => p_queue[i].count # p_queue[j].count
      /\ i < j => TakenBefore(p_queue[i], p_queue[j])
      /\ (/\ p_queue[i].state_node.previous = p_queue[j].state_node.previous
          /\ p_queue[i].state_node.previous # <<>>
          /\ ~p_queue[i].state_node.newline
          /\ p_queue[j].state_node.newline)
           => p_queue[i].count < p_queue[j].count

\* A turn of the loop: the counter does not go back, the entries it inserts
\* get the counts from the counter on, the older entries are kept as they
\* are, and the entry to take next is not before the one taken.
FrontierAdvances ==
  pc = "loop" =>
    /\ count' >= count
    /\ \A k \in 1..Len(p_queue') :
         \/ p_queue'[k].count >= count
         \/ \E j \in 1..Len(p_queue) : p_queue[j] = p_queue'[k]
    /\ p_queue # <<>> /\ p_queue' # <<>>
         => ~TakenBefore(Head(p_queue'), Head(p_queue))

\* C20: frontier entries are taken in increasing (penalty, insertion count)
\* order: the counts are unique and grow with every insertion, the 'no
\* newline' successor of a node is inserted before its 'newline' successor,
\* and of entries of equal penalty the earlier inserted is taken first.  No
\* two entries compare equal, so nothing else ever decides which entry is
\* taken and the search gives the same result on every run.
C20_TakenInPenaltyCountOrder ==
  []FrontierOrdered /\ [][FrontierAdvances]_vars

\* The loop has ended with a frontier that holds entries of equal penalty,
\* and both successors of one node.
C20_Witness ==
  /\ pc = "after"
  /\ \E i, j \in 1..Len(p_queue) :
       i # j /\ p_queue[i].penalty = p_queue[j].penalty
  /\ \E i, j \in 1..Len(p_queue) :
       /\ p_queue[i].state_node.previous = p_queue[j].state_node.previous
       /\ p_queue[i].state_node.previous # <<>>
       /\ ~p_queue[i].state_node.newline /\ p_queue[j].state_node.newline

----------------------------------------------------------------------------
(* Properties of the penalties along a parent chain                        *)

\* The cumulative penalty of the node that the first n decisions of a chain
\* lead to: the sum of what AddTokenToState returned for them.
PenaltyAfter(line, st, flags, n) == PathPenalty(line, st, SubSeq(flags, 1, n))

\* The penalty queued with every item is the sum of the penalties of the
\* edges of its chain, and along the chain no node has a lower cumulative
\* penalty than its parent; the root has 0.
ChainPenaltiesGrow(line, st, item) ==
  LET flags == PathOf(item.state_node)
  IN  /\ item.penalty = PenaltyAfter(line, st, flags, Len(flags))
      /\ PenaltyAfter(line, st, flags, 0) = 0
      /\ flags = <<>> => item.penalty = 0
      /\ \A n \in 1..Len(flags) :
           PenaltyAfter(line, st, flags, n - 1)
             <= PenaltyAfter(line, st, flags, n)

\* C21: along the parent chain of every node the search has built and
\* holds on its frontier, the cumulative penalty queued with a node is at
\* least that of its parent, every penalty added for a successor being
\* non-negative, and the root has penalty 0.
C21_PenaltyNeverDecreasesOnChain ==
  pc \in {"loop", "after"} =>
    \A k \in 1..Len(p_queue) :
      ChainPenaltiesGrow(uwline, initial_state, p_queue[k])

\* The loop has ended with a node on the frontier whose chain has an edge
\* that added nothing and an edge that added a penalty.
C21_Witness ==
  /\ pc = "after"
  /\ \E k \in 1..Len(p_queue) :
       LET flags == PathOf(p_queue[k].state_node)
       IN  /\ \E n \in 1..Len(flags) :
                PenaltyAfter(uwline, initial_state, flags, n - 1)
                  = PenaltyAfter(uwline, initial_state, flags, n)
           /\ \E n \in 1..Len(flags) :
                PenaltyAfter(uwline, initial_state, flags, n - 1)
                  < PenaltyAfter(uwline, initial_state, flags, n)

----------------------------------------------------------------------------
(* Properties of the set of expanded states                                *)

\* Items a and b hold equal decision states; the penalty and the parent
\* chain of the items play no part.
SameClass(a, b) == StateEq(a.state_node.state, b.state_node.state)

\* How many items were taken off the heap and dropped at `continue`: every
\* item inserted is on the heap, was expanded, or was dropped.
Dropped == count - Len(p_queue) - Len(expanded)

\* Every successor on the frontier was generated from an expanded item: its
\* parent chain is the chain of that item.
FromExpanded(item) ==
  LET flags == PathOf(item.state_node)
  IN  flags # <<>> =>
        \E i \in 1..Len(expanded) :
          PathOf(expanded[i].state_node) = SubSeq(flags, 1, Len(flags) - 1)

\* C22: within one search successors are generated from an item taken off
\* the heap only if no equal state was expanded before: no two expanded
\* items hold equal states, seen holds the states of the expanded items and
\* no other, and every successor comes from an expanded item, at most two
\* from each.  The items are expanded in the order of their penalties, so
\* the expanded item of a class has the lowest penalty of the items of its
\* class, those still on the frontier included.
C22_EachClassExpandedOnce ==
  pc \in {"loop", "after"} =>
    /\ \A i, j \in 1..Len(expanded) :
         i < j => /\ ~SameClass(expanded[j], expanded[i])
                  /\ expanded[i].penalty <= expanded[j].penalty
    /\ SeenStates(seen)
         = {expanded[i].state_node.state : i \in 1..Len(expanded)}
    /\ Dropped >= 0
    /\ count <= 1 + 2 * Len(expanded)
    /\ \A k \in 1..Len(p_queue) :
         /\ FromExpanded(p_queue[k])
         /\ \A i \in 1..Len(expanded) :
              SameClass(p_queue[k], expanded[i])
                => expanded[i].penalty <= p_queue[k].penalty

\* The loop has ended after dropping an item whose state had been expanded,
\* and another item of an expanded class, of a higher penalty than the
\* expanded one, is still on the frontier.
C22_Witness ==
  /\ pc = "after"
  /\ Dropped > 0
  /\ \E k \in 1..Len(p_queue) : \E i \in 1..Len(expanded) :
       /\ SameClass(p_queue[k], expanded[i])
       /\ expanded[i].penalty < p_queue[k].penalty

----------------------------------------------------------------------------
(* Properties of the end of the search                                     *)

\* The state of an expanded item is compared without its stack.
Relaxed(item) == item.state_node.state.ignore_stack_for_comparison

\* Every item taken off the heap once count has passed the threshold has
\* been compared, and put into seen, with ignore_stack_for_comparison set.
RelaxedPastThreshold ==
  \A i \in 1..Len(expanded) :
    expanded[i].taken_at > RelaxThreshold => Relaxed(expanded[i])

\* A turn of the loop takes an item off the heap or ends the loop.
LoopAdvances ==
  LET r == SearchLoop(uwline, p_queue, seen, expanded, count, LoopBatch)
  IN  r.done \/ r.p_queue # p_queue

\* _AnalyzeSolutionSpace has returned True or False.
SearchReturned == pc = "returned" /\ ret \in {"True", "False"}

\* C23: on every logical line _AnalyzeSolutionSpace, once called, returns
\* True or False; every state taken off the heap after the insertion count
\* has passed 10000 is compared with ignore_stack_for_comparison set, and
\* the search returns then too.
C23_SearchTerminates ==
  /\ [](pc \in {"loop", "after", "returned"} => RelaxedPastThreshold)
  /\ [](pc = "loop" => LoopAdvances)
  /\ (pc = "search") ~> SearchReturned

\* A search has returned after its count passed the threshold, having
\* expanded items before and after that.
C23_Witness ==
  /\ SearchReturned
  /\ count > RelaxThreshold
  /\ \E i, j \in 1..Len(expanded) :
       ~Relaxed(expanded[i]) /\ Relaxed(expanded[j])

----------------------------------------------------------------------------
(* Properties of _ReconstructPath                                          *)

RECURSIVE StateAfter(_, _, _)
\* The state the search reaches from st by the decisions `flags`, each
\* taken as _AddNextStateToQueue takes it.
StateAfter(line, st, flags) ==
  IF flags = <<>> THEN st
  ELSE StateAfter(line,
                  AddTokenToState(line, st, Head(flags), TRUE,
                                  MustSplit(line, st)).state,
                  Tail(flags))

\* The chain `flags` leads from st to the state of node: to its cursor, its
\* column and its stack, by a last edge with the node's newline flag.
LeadsTo(line, st, flags, node) ==
  LET s == StateAfter(line, st, flags)
  IN  /\ s.next = node.state.next
      /\ s.column = node.state.column
      /\ s.stack = node.state.stack
      /\ flags # <<>> => flags[Len(flags)] = node.newline

\* Token i of the line `after` carries the whitespace that a non-dry-run
\* AddTokenToState with the flag newline gives the token of `before`.
PlacedBy(before, after, i, newline) ==
  IF newline
    THEN after.tokens[i].newlines >= 1
    ELSE /\ after.tokens[i].newlines = before.tokens[i].newlines
         /\ after.tokens[i].spaces
              = Max(before.tokens[i].spaces_required_before, 0)

\* C24: when the search has found a terminal node, _ReconstructPath applies
\* to initial_state the newline flags of the nodes of its parent chain, the
\* root left out, from the root's child to the terminal node: as many
\* decisions as the line has tokens after the first, the k-th placing token
\* k + 1, and they are the decisions by which the search came to the
\* terminal node; afterwards initial_state has no next token.
C24_ReplaysChainRootToTerminal ==
  [][ pc = "after" /\ TerminalFound =>
        LET current == Head(p_queue).state_node
        IN  /\ Len(path') = Len(current.previous)
            /\ Len(path') = NumTokens(uwline) - 1
            /\ LeadsTo(uwline, initial_state, path', current)
            /\ \A k \in 1..Len(path') :
                 PlacedBy(uwline, uwline', k + 1, path'[k])
            /\ ~HasNextToken(uwline', initial_state')
            /\ initial_state'.next = current.state.next ]_vars

\* The search has returned after replaying a chain of at least three
\* decisions that reads differently from its end.
C24_Witness ==
  /\ pc = "returned"
  /\ ret = "True"
  /\ Len(path) >= 3
  /\ \E k \in 1..Len(path) : path[k] # path[Len(path) + 1 - k]
  /\ ~HasNextToken(uwline, initial_state)


----------------------------------------------------------------------------
(* The lines _SingleOrMergedLines yields                                   *)

\* What tells a token of the input from the others: its kind and its place
\* in the source.
TokenId(tok) == <<tok.kind, tok.lineno, tok.column>>
Ids(toks) == [i \in 1..Len(toks) |-> TokenId(toks[i])]

\* Reformat asks the generator for its next line.
AsksNextLine == pc = "next" /\ index < Len(uwlines)

\* The line the generator yielded in this step, as Reformat holds it at the
\* end of the step: handed to the search, or appended to final_lines.
YieldedLine ==
  IF pc' = "search" THEN uwline' ELSE final_lines'[Len(final_lines')]

\* The step takes the branch of the disabled lines, or the merge branch.
YieldsDisabled == uwlines[index + 1].disable
Merges ==
  /\ ~YieldsDisabled
  /\ CanMergeMultipleLines(SubSeq(uwlines, index + 1, Len(uwlines)),
                           last_was_merged)

\* The next step consults the merge predicate.
NextConsults == index' < Len(uwlines) /\ ~uwlines[index' + 1].disable

\* A merged line is the two lines at the index, and no more.
MergedIsOnePair ==
  AsksNextLine /\ Merges =>
    /\ index' = index + 2
    /\ Ids(YieldedLine.tokens)
         = Ids(uwlines[index + 1].tokens \o uwlines[index + 2].tokens)

\* C25 as stated: a line yielded from the merge branch holds the tokens of
\* exactly the two adjacent input lines at the index, the generator goes on
\* after the second of them, and the flag the merge predicate gets at the
\* next step is true exactly when this step merged.
C25_FlagIsPreviousStepMerged ==
  [][/\ MergedIsOnePair
     /\ AsksNextLine /\ NextConsults => (last_was_merged' <=> Merges)]_vars

\* C25, amended: a line yielded from the merge branch holds the tokens of
\* exactly the two adjacent input lines at the index and the generator goes
\* on after the second of them; a step that yields a disabled line leaves
\* the flag as it was, and any other step sets it to whether it merged, so
\* that the merge predicate gets: the most recent step that did not yield a
\* disabled line merged.
C25_FlagIsLastEnabledStepMerged ==
  [][/\ MergedIsOnePair
     /\ AsksNextLine =>
          (last_was_merged' <=>
             IF YieldsDisabled THEN last_was_merged ELSE Merges)]_vars

\* A merge, then a disabled line, then a line for which the predicate is
\* consulted with the flag still set.
C25_Witness ==
  /\ AsksNextLine
  /\ last_was_merged
  /\ index >= 3
  /\ uwlines[index].disable
  /\ ~uwlines[index + 1].disable
  /\ Len(final_lines) >= 2
  /\ NumTokens(final_lines[1])
       = NumTokens(uwlines[1]) + NumTokens(uwlines[2])


\* The tokens of toks that are no synthesized ';'.
WithoutSemi(toks) == SelectSeq(toks, LAMBDA tok : tok.kind # "semi")

\* The number of lines after line k of the input that start on its
\* physical line, one after the other.
SameLineRun(k) ==
  Cardinality({n \in 1..(Len(uwlines) - k) :
                 \A m \in 1..n : LineNo(uwlines[k + m]) = LineNo(uwlines[k])})

\* The first tokens of the lines k+1 .. k+n of the input.
FirstsAfter(k, n) == {TokenId(First(uwlines[k + m])) : m \in 1..n}

\* C26: a step of _SingleOrMergedLines that starts at a disabled line
\* yields that line followed by the tokens of every line after it that
\* starts on the same physical line, up to the first line that does not,
\* and goes on after the last of them, so that none is yielded on its own;
\* before an absorbed line stands a synthesized ';' exactly when the token
\* the line had accumulated until then is not ':', and there is no ';'
\* anywhere else.
C26_DisabledLineAbsorbsSameLine ==
  [][AsksNextLine /\ YieldsDisabled =>
       LET n == SameLineRun(index + 1)
           y == YieldedLine.tokens
           starts == FirstsAfter(index + 1, n)
       IN /\ index' = index + 1 + n
          /\ Ids(WithoutSemi(y))
               = Ids(FlatTokens(SubSeq(uwlines, index + 1, index + 1 + n)))
          /\ \A j \in 1..Len(y) :
               IF y[j].kind = "semi"
                 THEN /\ j > 1 /\ j < Len(y)
                      /\ y[j - 1].value # <<":">>
                      /\ TokenId(y[j + 1]) \in starts
               ELSE TokenId(y[j]) \in starts =>
                      \/ y[j - 1].kind = "semi"
                      \/ y[j - 1].value = <<":">>]_vars

\* A disabled header has absorbed two statements, the first without a ';'
\* and the second with one, and the line after them is left to the next
\* step.
C26_Witness ==
  /\ pc = "next"
  /\ index = 3
  /\ index < Len(uwlines)
  /\ uwlines[1].disable
  /\ Len(final_lines) = 1
  /\ LET y == final_lines[1].tokens
     IN /\ Len(WithoutSemi(y)) = Len(FlatTokens(SubSeq(uwlines, 1, 3)))
        /\ \E j \in 2..Len(y) :
             y[j - 1].value = <<":">> /\ y[j].kind # "semi"
        /\ \E j \in 2..Len(y) : y[j].kind = "semi"


\* The lines yielded so far in this run, in the order yielded: those
\* appended to final_lines and the one the search is laying out.
YieldedLines ==
  final_lines
    \o (IF pc \in {"search", "loop", "after", "returned"} THEN <<uwline>>
        ELSE <<>>)

\* C27: at every point of a run the tokens of the lines yielded so far,
\* the synthesized ';' left out, are the tokens of the input lines consumed
\* so far, each once and in the order of the input; every yielded line
\* starts with the first token of an input line, later lines with later
\* ones; and when Reformat ends every input line has been consumed.
C27_YieldedLinesCoverInputInOrder ==
  LET consumed == FlatTokens(SubSeq(uwlines, 1, index))
      yielded  == WithoutSemi(FlatTokens(YieldedLines))
      firsts   == [k \in 1..Len(uwlines) |-> TokenId(First(uwlines[k]))]
      \* the input line a yielded line starts with
      LineOf(h) == CHOOSE k \in 1..Len(uwlines) :
                     firsts[k] = TokenId(First(YieldedLines[h]))
  IN /\ Ids(yielded) = Ids(consumed)
     /\ \A i, j \in 1..Len(consumed) :
          TokenId(consumed[i]) = TokenId(consumed[j]) => i = j
     /\ \A h \in 1..Len(YieldedLines) :
          /\ \E k \in 1..index : firsts[k] = TokenId(First(YieldedLines[h]))
          /\ h > 1 => LineOf(h - 1) < LineOf(h)
     /\ pc = "done" => index = Len(uwlines)

\* Reformat has ended on a text in which it merged a header with its body
\* and made a disabled line absorb another with a ';' between them.
C27_Witness ==
  /\ pc = "done"
  /\ Len(final_lines) + 2 <= Len(uwlines)
  /\ \E h \in 1..Len(final_lines) :
       /\ ~final_lines[h].disable
       /\ \E k \in 1..(Len(uwlines) - 1) :
            NumTokens(final_lines[h])
              = NumTokens(uwlines[k]) + NumTokens(uwlines[k + 1])
            /\ TokenId(First(final_lines[h])) = TokenId(First(uwlines[k]))
  /\ \E h \in 1..Len(final_lines) :
       \E j \in 1..NumTokens(final_lines[h]) :
         final_lines[h].tokens[j].kind = "semi"


----------------------------------------------------------------------------
(* The emission strategies of Reformat                                     *)

\* The strategy Reformat's tests (lines 76, 81-82, 87-88) choose for a line.
StrategyOf(line) ==
  IF line.disable \/ LineHasContinuationMarkers(line) THEN "verbatim"
  ELSE IF LineContainsPylintDisableLineTooLong(line)
          \/ LineContainsI18n(line) THEN "unformatted"
  ELSE IF /\ CanPlaceOnSingleLine(line)
          /\ \A i \in 1..NumTokens(line) : ~line.tokens[i].must_split
    THEN "single"
  ELSE "search"

\* The sequences of newline flags under which the tokens after the first
\* can have got the newlines they have.
PossibleFlags(line) ==
  {flags \in [1..(NumTokens(line) - 1) -> BOOLEAN] :
     \A k \in 1..(NumTokens(line) - 1) :
       flags[k] => line.tokens[k + 1].newlines >= 1}

\* The whitespace of the tokens after the first is what one non-dry-run
\* AddTokenToState for each of them, in order, from a fresh state moved
\* past the first token, leaves on the line; the state then has no next
\* token.
PlacedOnceEach(line) ==
  LET st == MoveStateToNextToken(
              line,
              FormatDecisionState(line, style.INDENT_WIDTH * line.depth))
  IN \E flags \in PossibleFlags(line) :
       LET r == Replay(line, st, flags)
       IN r.line = line /\ ~HasNextToken(line, r.state)

\* The line breaks inside the line are those of the source.
BrokenAsInSource(line) ==
  \A i \in 2..NumTokens(line) :
    LET p == line.tokens[i - 1]
    IN ~IsContinuation(p) /\ ~IsString(p) /\ ~IsMultilineString(p) =>
         (line.tokens[i].newlines >= 1 <=> line.tokens[i].lineno > p.lineno)

\* The horizontal spacing of every token after the first was retained, or
\* that of none.
SpacingRetained(line) ==
  \A i \in 2..NumTokens(line) : line.tokens[i].retained
SpacingComputed(line) ==
  \A i \in 2..NumTokens(line) : ~line.tokens[i].retained

\* C28: an iteration of Reformat's loop emits the line by one strategy, the
\* first of these that applies: verbatim (a disabled line or one with a
\* continuation marker: the spacing and the line breaks of the source),
\* unformatted (pylint line-too-long or i18n: the line breaks of the
\* source, the spacing computed), on one physical line (the line fits and
\* has no must_split), or by the search, whose result is replayed, or, when
\* it failed, replaced by the layout of the source.  The line is appended
\* once, at the end of the iteration, and whatever the strategy each token
\* after the first has been placed by one non-dry-run AddTokenToState and
\* the state has no next token.
C28_OneStrategyByPriority ==
  /\ [][AsksNextLine =>
          LET s == StrategyOf(YieldedLine)
          IN IF s = "search"
               THEN pc' = "search" /\ Len(final_lines') = Len(final_lines)
             ELSE /\ pc' = "next"
                  /\ AppendsLine
                  /\ PlacedOnceEach(YieldedLine)
                  /\ s = "verbatim" =>
                       /\ BrokenAsInSource(YieldedLine)
                       /\ SpacingRetained(YieldedLine)
                  /\ s = "unformatted" =>
                       /\ BrokenAsInSource(YieldedLine)
                       /\ SpacingComputed(YieldedLine)
                  /\ s = "single" =>
                       /\ NoInternalLineBreak(YieldedLine)
                       /\ SpacingComputed(YieldedLine)]_vars
  /\ [](pc \in {"search", "loop", "after", "returned"} =>
          StrategyOf(uwline) = "search")
  /\ [][pc = "returned" =>
          /\ pc' = "next"
          /\ final_lines' = Append(final_lines, uwline')
          /\ PlacedOnceEach(uwline')
          /\ ~HasNextToken(uwline', initial_state')
          /\ IF ret = "True"
               THEN /\ uwline' = uwline /\ initial_state' = initial_state
                    /\ Len(path) = NumTokens(uwline) - 1
                    /\ SpacingComputed(uwline)
               ELSE /\ BrokenAsInSource(uwline')
                    /\ SpacingRetained(uwline')]_vars

\* Reformat has ended after emitting two lines: one with a continuation
\* marker, which would fit on one physical line and has kept the line break
\* and the spacing of the source, and one laid out by the search and
\* replayed.
C28_Witness ==
  /\ pc = "done"
  /\ ret = "True"
  /\ \E k, h \in 1..Len(final_lines) :
       /\ StrategyOf(final_lines[k]) = "verbatim"
       /\ CanPlaceOnSingleLine(final_lines[k])
       /\ ~NoInternalLineBreak(final_lines[k])
       /\ SpacingRetained(final_lines[k])
       /\ StrategyOf(final_lines[h]) = "search"
       /\ NumTokens(final_lines[h]) >= 2
       /\ SpacingComputed(final_lines[h])


----------------------------------------------------------------------------
(* The assertions of _AlignTrailingComments                                *)

\* The pre-comment lengths that the scan records for a line of a block.
PcLineLengths(line) ==
  IF line.disable THEN <<>>
  ELSE ScanLineTokens(line, 1, 0, <<>>, 0).pc_line_lengths

\* The comment tokens of a line.
CommentsOf(line) ==
  {i \in 1..NumTokens(line) : IsComment(line.tokens[i])}

\* C29: in the alignment pass, the column chosen for a block is greater
\* than every pre-comment length recorded for a line of the block, and a
\* line of the block that is not disabled has as many recorded lengths as
\* comments, so that none of the three assertions of the rewrite fails;
\* afterwards every comment of a line of the block that is not disabled
\* starts at the chosen column, and the disabled lines of the block are as
\* they were.
C29_AlignedColumnBeyondContent ==
  [][ComposesText =>
       \A b \in AlignedBlocks(final_lines, 0) :
         LET aligned_col == AlignedCol(b.columns, b.longest)
         IN \A k \in b.first..b.last :
              LET line == final_lines[k]
                  lens == PcLineLengths(line)
              IN IF line.disable THEN final_lines'[k] = line
                 ELSE /\ Len(lens) = Cardinality(CommentsOf(line))
                      /\ \A h \in 1..Len(lens) : lens[h] < aligned_col
                      /\ CommentsOf(final_lines'[k]) = CommentsOf(line)
                      /\ \A i \in CommentsOf(line) :
                           CommentColumn(final_lines'[k], i) = aligned_col]_vars

\* The pass has aligned a block of three lines, the second of them
\* disabled, with a comment and more content before it than the two
\* others: its comment is where it was, and the comments of the two others,
\* which follow contents of different lengths, are at one column.
C29_Witness ==
  /\ pc = "done"
  /\ Len(final_lines) = 3
  /\ final_lines[2].disable
  /\ ~final_lines[1].disable /\ ~final_lines[3].disable
  /\ \A k \in 1..3 : /\ NumTokens(final_lines[k]) = 2
                     /\ IsComment(final_lines[k].tokens[2])
  /\ final_lines[1].tokens[2].columns # <<>>
  /\ final_lines[2].tokens[2].value = <<"#", "d">>
  /\ EndColumn(final_lines[1], 1) < EndColumn(final_lines[3], 1)
  /\ EndColumn(final_lines[3], 1) < EndColumn(final_lines[2], 1)
  /\ CommentColumn(final_lines[1], 2) = CommentColumn(final_lines[3], 2)
  /\ CommentColumn(final_lines[1], 2) # CommentColumn(final_lines[2], 2)


----------------------------------------------------------------------------
(* The global style across a failed CreateStyleFromConfig                  *)

\* The step is a call of CreateStyleFromConfig that raises StyleConfigError.
RaisesStyleConfigError ==
  pc = "config" /\ result'.status = "StyleConfigError"

====
